---- MODULE Spec2Model ----
(***************************************************************************)
(* Type inference engine of JS2TS: the type model (src/inference/types.ts) *)
(* and the TypeInferrer class (src/inference/type-inferrer.ts).            *)
(*                                                                         *)
(* Descriptors are JavaScript strings and are modelled as TLA+ strings;    *)
(* join, split, trim, replace and charCodeAt are computed on them.         *)
(* Confidences are JavaScript numbers; they are modelled as exact          *)
(* fractions [n, d] in lowest terms.                                       *)
(***************************************************************************)
EXTENDS Integers, Sequences, FiniteSets, TLC

VARIABLES
    context,    \* the TypeContext of the translation unit: scope, interfaces, imports
    call,       \* the call in progress: the function and its arguments
    ret,        \* the value the call returned, if it has: Some(value) or Undefined
    pc          \* "idle": no call in progress; "called": arguments bound; "returned"

vars == <<context, call, ret, pc>>

\* The value the call returned, once it has.
result == CHOOSE value \in ret : TRUE

(***************************************************************************)
(* Bounds of the model.                                                    *)
(***************************************************************************)
MaxMembers == 2     \* members of a union built by createUnionType
MaxProps == 2       \* properties of a property list, of an object literal
MaxElems == 2       \* elements of an array literal
MaxScope == 1       \* identifiers the binder puts into context.scope
MaxStmts == 2       \* statements of a function body

(***************************************************************************)
(* JavaScript values.                                                      *)
(***************************************************************************)
\* An optional value that is undefined, and one that is set.
Undefined == {}
Some(v) == {v}

Range(seq) == {seq[i] : i \in 1..Len(seq)}

RECURSIVE GCD(_, _)
GCD(a, b) == IF b = 0 THEN a ELSE GCD(b, a % b)

\* The number n/d, in lowest terms.
Rat(n, d) == LET g == GCD(n, d) IN [n |-> n \div g, d |-> d \div g]

Add(a, b) == Rat(a.n * b.d + b.n * a.d, a.d * b.d)
Mul(a, b) == Rat(a.n * b.n, a.d * b.d)
Div(a, b) == Rat(a.n * b.d, a.d * b.n)
Geq(a, b) == a.n * b.d >= b.n * a.d
Gt(a, b) == a.n * b.d > b.n * a.d
Min(a, b) == IF Geq(a, b) THEN b ELSE a

\* String.prototype.indexOf, 1-based; 0 when pat does not occur in s.
IndexOf(s, pat) ==
    LET At(i) == SubSeq(s, i, i + Len(pat) - 1) = pat
        hits == {i \in 1..(Len(s) - Len(pat) + 1) : At(i)}
    IN  IF hits = {} THEN 0 ELSE CHOOSE i \in hits : \A j \in hits : i <= j

\* String.prototype.split with a non-empty separator.
RECURSIVE Split(_, _)
Split(s, sep) ==
    LET i == IndexOf(s, sep)
    IN  IF i = 0 THEN <<s>>
        ELSE <<SubSeq(s, 1, i - 1)>> \o Split(SubSeq(s, i + Len(sep), Len(s)), sep)

\* Array.prototype.join.
RECURSIVE Join(_, _)
Join(parts, sep) ==
    IF Len(parts) = 0 THEN ""
    ELSE IF Len(parts) = 1 THEN parts[1]
    ELSE parts[1] \o sep \o Join(Tail(parts), sep)

\* String.prototype.trim.
RECURSIVE Trim(_)
Trim(s) ==
    IF Len(s) > 0 /\ SubSeq(s, 1, 1) = " " THEN Trim(SubSeq(s, 2, Len(s)))
    ELSE IF Len(s) > 0 /\ SubSeq(s, Len(s), Len(s)) = " " THEN Trim(SubSeq(s, 1, Len(s) - 1))
    ELSE s

\* String.prototype.replace with a string pattern: the first occurrence only.
Replace(s, pat, rep) ==
    LET i == IndexOf(s, pat)
    IN  IF i = 0 THEN s
        ELSE SubSeq(s, 1, i - 1) \o rep \o SubSeq(s, i + Len(pat), Len(s))

\* A list in place of the Set: add appends a value present or not.
SetAddKeepsDuplicates(set, v) == Append(set, v)

\* A JavaScript Set keeps insertion order: add appends a value not yet present.
SetAdd(set, v) == IF v \in Range(set) THEN set ELSE Append(set, v)

RECURSIVE SetAddAll(_, _)
SetAddAll(set, vs) ==
    IF Len(vs) = 0 THEN set ELSE SetAddAll(SetAdd(set, Head(vs)), Tail(vs))

(***************************************************************************)
(* The type model: types.ts.                                               *)
(***************************************************************************)
createTypeContext == [scope |-> <<>>, interfaces |-> <<>>, imports |-> <<>>]

createPrimitiveType(value, confidence) ==
    [kind |-> "primitive", value |-> value, confidence |-> confidence]

createArrayType(elementType, confidence) ==
    [kind |-> "array", value |-> elementType \o "[]", confidence |-> confidence]

createObjectType(value, confidence, needsInterface, interfaceName) ==
    [kind |-> "object", value |-> value, confidence |-> confidence,
     needsInterface |-> needsInterface, interfaceName |-> interfaceName]

createFunctionType(value, confidence) ==
    [kind |-> "function", value |-> value, confidence |-> confidence]

createUnionType(types, confidence) ==
    [kind |-> "union", value |-> Join(types, " | "), confidence |-> confidence]

createUnknownType(confidence) ==
    [kind |-> "unknown", value |-> "unknown", confidence |-> confidence]

areTypesEqual(type1, type2) ==
    type1.kind = type2.kind /\ type1.value = type2.value

\* The member descriptors mergeTypes adds to its Set for one operand.
UnionMembers(type) ==
    IF type.kind = "union"
    THEN LET parts == Split(type.value, " | ")
         IN  [i \in 1..Len(parts) |-> Trim(parts[i])]
    ELSE <<type.value>>

\* mergeTypes without its two unknown cases: an unknown operand joins the union.
mergeTypesUnknownJoins(type1, type2) ==
    IF areTypesEqual(type1, type2)
    THEN IF Geq(type1.confidence, type2.confidence) THEN type1 ELSE type2
    ELSE createUnionType(
             SetAddAll(SetAddAll(<<>>, UnionMembers(type1)), UnionMembers(type2)),
             Div(Add(type1.confidence, type2.confidence), Rat(2, 1)))

\* mergeTypes comparing the confidences of equal types with > in place of >=:
\* a tie keeps the second operand.
mergeTypesTieKeepsSecond(type1, type2) ==
    IF areTypesEqual(type1, type2)
    THEN IF Gt(type1.confidence, type2.confidence) THEN type1 ELSE type2
    ELSE IF type1.kind = "unknown" THEN type2
    ELSE IF type2.kind = "unknown" THEN type1
    ELSE createUnionType(
             SetAddAll(SetAddAll(<<>>, UnionMembers(type1)), UnionMembers(type2)),
             Div(Add(type1.confidence, type2.confidence), Rat(2, 1)))

\* mergeTypes giving a union the confidence of its first operand, not the mean.
mergeTypesFirstConfidence(type1, type2) ==
    IF areTypesEqual(type1, type2)
    THEN IF Geq(type1.confidence, type2.confidence) THEN type1 ELSE type2
    ELSE IF type1.kind = "unknown" THEN type2
    ELSE IF type2.kind = "unknown" THEN type1
    ELSE createUnionType(
             SetAddAll(SetAddAll(<<>>, UnionMembers(type1)), UnionMembers(type2)),
             type1.confidence)

mergeTypes(type1, type2) ==
    IF areTypesEqual(type1, type2)
    THEN IF Geq(type1.confidence, type2.confidence) THEN type1 ELSE type2
    ELSE IF type1.kind = "unknown" THEN type2
    ELSE IF type2.kind = "unknown" THEN type1
    ELSE LET unionTypes ==
                 SetAddAll(SetAddAll(<<>>, UnionMembers(type1)), UnionMembers(type2))
             avgConfidence == Div(Add(type1.confidence, type2.confidence), Rat(2, 1))
         IN  createUnionType(unionTypes, avgConfidence)

(***************************************************************************)
(* Interface definitions and their hash: types.ts.                         *)
(***************************************************************************)
createPropertyDefinition(name, type, optional, readonly) ==
    [name |-> name, type |-> type, optional |-> optional, readonly |-> readonly]

\* The UTF-16 code units of the printable ASCII characters: 32..95 and
\* 97..126 (a TLA+ string cannot hold the grave accent, 96).
AsciiLow == " !\"#$%&'()*+,-./0123456789:;<=>?@ABCDEFGHIJKLMNOPQRSTUVWXYZ[\\]^_"
AsciiHigh == "abcdefghijklmnopqrstuvwxyz{|}~"

CharCode ==
    [c \in {SubSeq(AsciiLow, i, i) : i \in 1..Len(AsciiLow)}
           \cup {SubSeq(AsciiHigh, i, i) : i \in 1..Len(AsciiHigh)} |->
        IF IndexOf(AsciiLow, c) > 0 THEN 31 + IndexOf(AsciiLow, c)
        ELSE 96 + IndexOf(AsciiHigh, c)]

\* String.prototype.charCodeAt, 1-based.
CharCodeAt(s, i) == CharCode[SubSeq(s, i, i)]

\* String.prototype.localeCompare under the root collation, on ASCII: strings
\* are ordered by their letters first (punctuation before digits before
\* letters, case ignored), and strings with the same letters by case, lower
\* case first.
CollationSymbols == " _-,;:!?.'\"()[]{}@*/\\&#%^+<=>|~$0123456789"
CollationLower == "abcdefghijklmnopqrstuvwxyz"
CollationUpper == "ABCDEFGHIJKLMNOPQRSTUVWXYZ"

PrimaryWeight ==
    [c \in DOMAIN CharCode |->
        IF IndexOf(CollationLower, c) > 0 THEN Len(CollationSymbols) + IndexOf(CollationLower, c)
        ELSE IF IndexOf(CollationUpper, c) > 0 THEN Len(CollationSymbols) + IndexOf(CollationUpper, c)
        ELSE IndexOf(CollationSymbols, c)]

TertiaryWeight ==
    [c \in DOMAIN CharCode |-> IF IndexOf(CollationUpper, c) > 0 THEN 1 ELSE 0]

\* Lexicographic comparison of two strings by a weight of their characters.
RECURSIVE CompareBy(_, _, _)
CompareBy(weight, a, b) ==
    IF Len(a) = 0 /\ Len(b) = 0 THEN 0
    ELSE IF Len(a) = 0 THEN -1
    ELSE IF Len(b) = 0 THEN 1
    ELSE LET wa == weight[SubSeq(a, 1, 1)]
             wb == weight[SubSeq(b, 1, 1)]
         IN  IF wa < wb THEN -1
             ELSE IF wa > wb THEN 1
             ELSE CompareBy(weight, SubSeq(a, 2, Len(a)), SubSeq(b, 2, Len(b)))

localeCompare(a, b) ==
    LET primary == CompareBy(PrimaryWeight, a, b)
    IN  IF primary # 0 THEN primary ELSE CompareBy(TertiaryWeight, a, b)

\* Array.prototype.sort is stable: p goes after every element that does not
\* compare greater than it.
SortedInsert(sorted, p) ==
    LET after == {i \in 1..Len(sorted) : localeCompare(sorted[i].name, p.name) > 0}
        at == IF after = {} THEN Len(sorted) + 1
              ELSE CHOOSE i \in after : \A j \in after : i <= j
    IN  SubSeq(sorted, 1, at - 1) \o <<p>> \o SubSeq(sorted, at, Len(sorted))

RECURSIVE SortByName(_)
SortByName(properties) ==
    IF Len(properties) = 0 THEN <<>>
    ELSE SortedInsert(SortByName(SubSeq(properties, 1, Len(properties) - 1)),
                      properties[Len(properties)])

PropertySignature(p) ==
    p.name \o (IF p.optional THEN "?" ELSE "") \o (IF p.readonly THEN "!" ELSE "")
           \o ":" \o p.type

\* A 32-bit word is kept as its two 16-bit halves, the arithmetic being
\* modulo 2^32 as the conversion to a 32-bit integer makes it.
Word(hi, lo) == [hi |-> hi, lo |-> lo]

ShiftLeft5(w) ==
    Word((w.hi * 32 + (w.lo * 32) \div 65536) % 65536, (w.lo * 32) % 65536)

WordSub(a, b) ==
    LET borrow == IF a.lo < b.lo THEN 1 ELSE 0
    IN  Word((a.hi - b.hi - borrow + 131072) % 65536, (a.lo - b.lo + 65536) % 65536)

WordAdd(a, n) ==
    Word((a.hi + (a.lo + n) \div 65536) % 65536, (a.lo + n) % 65536)

\* hash = ((hash << 5) - hash) + char; hash = hash & hash
HashStep(hash, char) == WordAdd(WordSub(ShiftLeft5(hash), hash), char)

\* The loop over the characters from..to of the signature, in order: the
\* first half of the range, then the second from the hash the first left.
RECURSIVE HashLoop(_, _, _, _)
HashLoop(hash, signature, from, to) ==
    IF from > to THEN hash
    ELSE IF from = to THEN HashStep(hash, CharCodeAt(signature, from))
    ELSE LET mid == (from + to) \div 2
         IN  CHOOSE h \in {HashLoop(first, signature, mid + 1, to) :
                               first \in {HashLoop(hash, signature, from, mid)}} : TRUE

\* Math.abs of the signed 32-bit integer a word stands for (2^31 for -2^31).
MathAbs(w) ==
    IF w.hi < 32768 THEN w
    ELSE WordSub(Word(0, 0), w)

Digits36 == "0123456789abcdefghijklmnopqrstuvwxyz"

\* Number.prototype.toString(36) of a non-negative integer below 2^32.
RECURSIVE ToString36(_)
ToString36(w) ==
    LET rest == (w.hi % 36) * 65536 + w.lo
        digit == SubSeq(Digits36, (rest % 36) + 1, (rest % 36) + 1)
        quotient == Word(w.hi \div 36, rest \div 36)
    IN  IF quotient = Word(0, 0) THEN digit ELSE ToString36(quotient) \o digit

hashInterfaceDefinition(properties) ==
    LET sortedProps == SortByName(properties)
        signature ==
            Join([i \in 1..Len(sortedProps) |-> PropertySignature(sortedProps[i])], "|")
    IN  ToString36(MathAbs(HashLoop(Word(0, 0), signature, 1, Len(signature))))

\* areInterfacesEqual comparing the declared names as well.
areInterfacesEqualAndNamed(def1, def2) == def1.hash = def2.hash /\ def1.name = def2.name

areInterfacesEqual(def1, def2) == def1.hash = def2.hash

createInterfaceDefinition(name, properties) ==
    [name |-> name, properties |-> properties, usageCount |-> 1,
     hash |-> hashInterfaceDefinition(properties)]

(***************************************************************************)
(* Syntax-tree nodes, as the parser delivers them.                         *)
(***************************************************************************)
Null == [type |-> "null"]

privateName(name) == [type |-> "PrivateName", name |-> name]
stringLiteral(value) == [type |-> "StringLiteral", value |-> value]
\* The value of a numeric literal is a number and that of a boolean literal a
\* boolean: each is held in a field of its own, apart from the string values.
numericLiteral(value) == [type |-> "NumericLiteral", numericValue |-> value]
booleanLiteral(value) == [type |-> "BooleanLiteral", booleanValue |-> value]
nullLiteral == [type |-> "NullLiteral"]
templateLiteral(quasis, expressions) ==
    [type |-> "TemplateLiteral", quasis |-> quasis, expressions |-> expressions]
bigIntLiteral(value) == [type |-> "BigIntLiteral", value |-> value]
regExpLiteral(pattern, flags) == [type |-> "RegExpLiteral", pattern |-> pattern, flags |-> flags]
identifier(name) == [type |-> "Identifier", name |-> name]
spreadElement(argument) == [type |-> "SpreadElement", argument |-> argument]
arrayExpression(elements) == [type |-> "ArrayExpression", elements |-> elements]
unaryExpression(operator, argument) ==
    [type |-> "UnaryExpression", operator |-> operator, argument |-> argument]
binaryExpression(operator, left, right) ==
    [type |-> "BinaryExpression", operator |-> operator, left |-> left, right |-> right]
logicalExpression(operator, left, right) ==
    [type |-> "LogicalExpression", operator |-> operator, left |-> left, right |-> right]
conditionalExpression(test, consequent, alternate) ==
    [type |-> "ConditionalExpression", test |-> test,
     consequent |-> consequent, alternate |-> alternate]
callExpression(callee, arguments) ==
    [type |-> "CallExpression", callee |-> callee, arguments |-> arguments]
memberExpression(object, property, computed) ==
    [type |-> "MemberExpression", object |-> object, property |-> property,
     computed |-> computed]
variableDeclarator(id, init) == [type |-> "VariableDeclarator", id |-> id, init |-> init]
objectExpression(properties) == [type |-> "ObjectExpression", properties |-> properties]
objectProperty(key, value, computed) ==
    [type |-> "ObjectProperty", key |-> key, value |-> value, computed |-> computed]
objectMethod(key, params, body, computed) ==
    [type |-> "ObjectMethod", key |-> key, params |-> params, body |-> body,
     computed |-> computed]
arrowFunctionExpression(params, body) ==
    [type |-> "ArrowFunctionExpression", params |-> params, body |-> body]
functionExpression(params, body) ==
    [type |-> "FunctionExpression", params |-> params, body |-> body]
assignmentPattern(left, right) == [type |-> "AssignmentPattern", left |-> left, right |-> right]
blockStatement(body) == [type |-> "BlockStatement", body |-> body]
returnStatement(argument) == [type |-> "ReturnStatement", argument |-> argument]
expressionStatement(expression) == [type |-> "ExpressionStatement", expression |-> expression]
ifStatement(test, consequent, alternate) ==
    [type |-> "IfStatement", test |-> test, consequent |-> consequent, alternate |-> alternate]
\* t.isExpression, on the nodes met where the inferrer asks: the property of a
\* member expression, an argument, an array element, the value of a property,
\* the body of a function.
isExpression(node) ==
    node.type \notin {"PrivateName", "SpreadElement", "BlockStatement", "RestElement",
                      "AssignmentPattern", "ArrayPattern", "ObjectPattern", "null"}

(***************************************************************************)
(* The expression inferrer: type-inferrer.ts.                              *)
(***************************************************************************)
RECURSIVE inferExpressionType(_, _)
RECURSIVE inferArrayType(_, _)
RECURSIVE inferBinaryExpressionType(_, _)
RECURSIVE inferLogicalExpressionType(_, _)
RECURSIVE inferConditionalExpressionType(_, _)
RECURSIVE inferCallExpressionType(_, _)
RECURSIVE inferMethodCallType(_, _, _)
RECURSIVE inferMemberExpressionType(_, _)
RECURSIVE inferObjectShape(_, _)
RECURSIVE inferFunctionReturnType(_, _)
RECURSIVE inferParameterTypes(_, _)

\* let mergedType = types[0]; for (i = 1; ...) mergedType = mergeTypes(mergedType, types[i])
RECURSIVE MergeLoop(_, _, _)
MergeLoop(mergedType, types, i) ==
    IF i > Len(types) THEN mergedType
    ELSE MergeLoop(mergeTypes(mergedType, types[i]), types, i + 1)

LiteralTypes ==
    {"StringLiteral", "NumericLiteral", "BooleanLiteral", "NullLiteral",
     "TemplateLiteral", "BigIntLiteral", "RegExpLiteral"}

\* inferLiteralType with a template literal trusted less once it embeds expressions.
inferLiteralTypeByContent(node) ==
    CASE node.type = "StringLiteral" -> createPrimitiveType("string", Rat(1, 1))
      [] node.type = "NumericLiteral" -> createPrimitiveType("number", Rat(1, 1))
      [] node.type = "BooleanLiteral" -> createPrimitiveType("boolean", Rat(1, 1))
      [] node.type = "NullLiteral" -> createPrimitiveType("null", Rat(1, 1))
      [] node.type = "TemplateLiteral" ->
             IF Len(node.expressions) = 0 THEN createPrimitiveType("string", Rat(1, 1))
             ELSE createPrimitiveType("string", Rat(9, 10))
      [] node.type = "BigIntLiteral" -> createPrimitiveType("bigint", Rat(1, 1))
      [] node.type = "RegExpLiteral" -> createPrimitiveType("RegExp", Rat(1, 1))

\* The literal cases of inferExpressionType.
inferLiteralType(node) ==
    CASE node.type = "StringLiteral" -> createPrimitiveType("string", Rat(1, 1))
      [] node.type = "NumericLiteral" -> createPrimitiveType("number", Rat(1, 1))
      [] node.type = "BooleanLiteral" -> createPrimitiveType("boolean", Rat(1, 1))
      [] node.type = "NullLiteral" -> createPrimitiveType("null", Rat(1, 1))
      [] node.type = "TemplateLiteral" -> createPrimitiveType("string", Rat(1, 1))
      [] node.type = "BigIntLiteral" -> createPrimitiveType("bigint", Rat(1, 1))
      [] node.type = "RegExpLiteral" -> createPrimitiveType("RegExp", Rat(1, 1))

inferIdentifierType(node, ctx) ==
    IF node.name \in DOMAIN ctx.scope THEN ctx.scope[node.name]
    ELSE CASE node.name = "undefined" -> createPrimitiveType("undefined", Rat(1, 1))
           [] node.name \in {"NaN", "Infinity"} -> createPrimitiveType("number", Rat(1, 1))
           [] OTHER -> createUnknownType(Rat(0, 1))

inferUnaryExpressionType(node, ctx) ==
    CASE node.operator = "!" -> createPrimitiveType("boolean", Rat(1, 1))
      [] node.operator \in {"+", "-", "~"} -> createPrimitiveType("number", Rat(1, 1))
      [] node.operator = "typeof" -> createPrimitiveType("string", Rat(1, 1))
      [] node.operator = "void" -> createPrimitiveType("undefined", Rat(1, 1))
      [] node.operator = "delete" -> createPrimitiveType("boolean", Rat(1, 1))
      [] OTHER -> createUnknownType(Rat(1, 2))

inferBuiltInFunctionReturnType(functionName, args, ctx) ==
    CASE functionName = "String" -> createPrimitiveType("string", Rat(1, 1))
      [] functionName \in {"Number", "parseInt", "parseFloat"} ->
             createPrimitiveType("number", Rat(1, 1))
      [] functionName = "Boolean" -> createPrimitiveType("boolean", Rat(1, 1))
      [] functionName = "Array" -> createArrayType("unknown", Rat(7, 10))
      [] functionName = "Object" -> createPrimitiveType("object", Rat(7, 10))
      [] functionName = "Date" -> createPrimitiveType("Date", Rat(1, 1))
      [] functionName = "RegExp" -> createPrimitiveType("RegExp", Rat(1, 1))
      [] functionName = "Promise" -> createPrimitiveType("Promise<unknown>", Rat(4, 5))
      [] OTHER -> createUnknownType(Rat(1, 10))

inferArrayMethodReturnType(methodName, arrayType, ctx) ==
    LET elementType == Replace(arrayType.value, "[]", "")
    IN  CASE methodName \in {"map", "filter", "slice", "concat"} ->
                 createArrayType(elementType, Rat(9, 10))
          [] methodName \in {"find", "pop", "shift"} ->
                 createPrimitiveType(elementType \o " | undefined", Rat(9, 10))
          [] methodName = "reduce" -> createUnknownType(Rat(1, 2))
          [] methodName = "join" -> createPrimitiveType("string", Rat(1, 1))
          [] methodName \in {"indexOf", "lastIndexOf", "findIndex", "length"} ->
                 createPrimitiveType("number", Rat(1, 1))
          [] methodName \in {"includes", "some", "every"} ->
                 createPrimitiveType("boolean", Rat(1, 1))
          [] methodName \in {"forEach", "push", "unshift"} ->
                 createPrimitiveType("void", Rat(9, 10))
          [] OTHER -> createUnknownType(Rat(3, 10))

inferStringMethodReturnType(methodName) ==
    CASE methodName \in {"charAt", "concat", "slice", "substring", "substr",
                         "toLowerCase", "toUpperCase", "trim", "trimStart", "trimEnd",
                         "repeat", "replace", "replaceAll", "padStart", "padEnd"} ->
             createPrimitiveType("string", Rat(1, 1))
      [] methodName = "split" -> createArrayType("string", Rat(1, 1))
      [] methodName \in {"indexOf", "lastIndexOf", "search", "charCodeAt", "length"} ->
             createPrimitiveType("number", Rat(1, 1))
      [] methodName \in {"includes", "startsWith", "endsWith"} ->
             createPrimitiveType("boolean", Rat(1, 1))
      [] methodName \in {"match", "matchAll"} ->
             createPrimitiveType("RegExpMatchArray | null", Rat(9, 10))
      [] OTHER -> createUnknownType(Rat(3, 10))

\* The dispatch with a node of no recognized category given the confidence of a
\* private name.
inferExpressionTypeGuessing(node, ctx) ==
    CASE node.type = "PrivateName" -> createUnknownType(Rat(3, 10))
      [] node.type \in LiteralTypes -> inferLiteralType(node)
      [] node.type = "ArrayExpression" -> inferArrayType(node, ctx)
      [] node.type = "ObjectExpression" -> inferObjectShape(node, ctx)
      [] node.type = "Identifier" -> inferIdentifierType(node, ctx)
      [] node.type = "UnaryExpression" -> inferUnaryExpressionType(node, ctx)
      [] node.type = "BinaryExpression" -> inferBinaryExpressionType(node, ctx)
      [] node.type = "LogicalExpression" -> inferLogicalExpressionType(node, ctx)
      [] node.type = "ConditionalExpression" -> inferConditionalExpressionType(node, ctx)
      [] node.type = "CallExpression" -> inferCallExpressionType(node, ctx)
      [] node.type = "MemberExpression" -> inferMemberExpressionType(node, ctx)
      [] OTHER -> createUnknownType(Rat(3, 10))

inferExpressionType(node, ctx) ==
    CASE node.type = "PrivateName" -> createUnknownType(Rat(3, 10))
      [] node.type \in LiteralTypes -> inferLiteralType(node)
      [] node.type = "ArrayExpression" -> inferArrayType(node, ctx)
      [] node.type = "ObjectExpression" -> inferObjectShape(node, ctx)
      [] node.type = "Identifier" -> inferIdentifierType(node, ctx)
      [] node.type = "UnaryExpression" -> inferUnaryExpressionType(node, ctx)
      [] node.type = "BinaryExpression" -> inferBinaryExpressionType(node, ctx)
      [] node.type = "LogicalExpression" -> inferLogicalExpressionType(node, ctx)
      [] node.type = "ConditionalExpression" -> inferConditionalExpressionType(node, ctx)
      [] node.type = "CallExpression" -> inferCallExpressionType(node, ctx)
      [] node.type = "MemberExpression" -> inferMemberExpressionType(node, ctx)
      [] OTHER -> createUnknownType(Rat(0, 1))

\* inferArrayType with the merged confidence kept as it is for mixed elements.
inferArrayTypeUnscaled(node, ctx) ==
    IF Len(node.elements) = 0 THEN createArrayType("unknown", Rat(1, 2))
    ELSE LET Inferable(element) == element # Null /\ element.type # "SpreadElement"
             elements == SelectSeq(node.elements, Inferable)
             elementTypes ==
                 [i \in 1..Len(elements) |-> inferExpressionType(elements[i], ctx)]
         IN  IF Len(elementTypes) = 0 THEN createArrayType("unknown", Rat(3, 10))
             ELSE LET mergedType == MergeLoop(elementTypes[1], elementTypes, 2)
                      allSameType ==
                          \A i \in 1..Len(elementTypes) :
                              elementTypes[i].value = elementTypes[1].value
                      confidence ==
                          IF allSameType THEN Rat(1, 1) ELSE mergedType.confidence
                  IN  createArrayType(mergedType.value, confidence)

inferArrayType(node, ctx) ==
    IF Len(node.elements) = 0 THEN createArrayType("unknown", Rat(1, 2))
    ELSE LET Inferable(element) == element # Null /\ element.type # "SpreadElement"
             elements == SelectSeq(node.elements, Inferable)
             elementTypes ==
                 [i \in 1..Len(elements) |-> inferExpressionType(elements[i], ctx)]
         IN  IF Len(elementTypes) = 0 THEN createArrayType("unknown", Rat(3, 10))
             ELSE LET mergedType == MergeLoop(elementTypes[1], elementTypes, 2)
                      allSameType ==
                          \A i \in 1..Len(elementTypes) :
                              elementTypes[i].value = elementTypes[1].value
                      confidence ==
                          IF allSameType THEN Rat(1, 1)
                          ELSE Mul(mergedType.confidence, Rat(9, 10))
                  IN  createArrayType(mergedType.value, confidence)

\* inferBinaryExpressionType with an addition a string only when both operands are.
inferBinaryExpressionTypeBothStrings(node, ctx) ==
    LET leftType == inferExpressionType(node.left, ctx)
        rightType == inferExpressionType(node.right, ctx)
    IN  CASE node.operator \in {"==", "===", "!=", "!==", "<", "<=", ">", ">=",
                                "in", "instanceof"} ->
                 createPrimitiveType("boolean", Rat(1, 1))
          [] node.operator \in {"-", "*", "/", "%", "**", "<<", ">>", ">>>", "&", "|", "^"} ->
                 createPrimitiveType("number", Rat(1, 1))
          [] node.operator = "+" ->
                 IF leftType.value = "string" /\ rightType.value = "string"
                 THEN createPrimitiveType("string", Rat(19, 20))
                 ELSE IF leftType.value = "number" /\ rightType.value = "number"
                 THEN createPrimitiveType("number", Rat(1, 1))
                 ELSE createPrimitiveType("string | number", Rat(3, 5))
          [] OTHER -> createUnknownType(Rat(3, 10))

inferBinaryExpressionType(node, ctx) ==
    LET leftType == inferExpressionType(node.left, ctx)
        rightType == inferExpressionType(node.right, ctx)
    IN  CASE node.operator \in {"==", "===", "!=", "!==", "<", "<=", ">", ">=",
                                "in", "instanceof"} ->
                 createPrimitiveType("boolean", Rat(1, 1))
          [] node.operator \in {"-", "*", "/", "%", "**", "<<", ">>", ">>>", "&", "|", "^"} ->
                 createPrimitiveType("number", Rat(1, 1))
          [] node.operator = "+" ->
                 IF leftType.value = "string" \/ rightType.value = "string"
                 THEN createPrimitiveType("string", Rat(19, 20))
                 ELSE IF leftType.value = "number" /\ rightType.value = "number"
                 THEN createPrimitiveType("number", Rat(1, 1))
                 ELSE createPrimitiveType("string | number", Rat(3, 5))
          [] OTHER -> createUnknownType(Rat(3, 10))

\* The logical rule with a right operand at exactly 0.5 taken as it is.
inferLogicalExpressionTypeFromHalf(node, ctx) ==
    LET leftType == inferExpressionType(node.left, ctx)
        rightType == inferExpressionType(node.right, ctx)
    IN  CASE node.operator \in {"&&", "||"} -> mergeTypes(leftType, rightType)
          [] node.operator = "??" ->
                 IF Geq(rightType.confidence, Rat(1, 2)) THEN rightType
                 ELSE mergeTypes(leftType, rightType)
          [] OTHER -> createUnknownType(Rat(3, 10))

inferLogicalExpressionType(node, ctx) ==
    LET leftType == inferExpressionType(node.left, ctx)
        rightType == inferExpressionType(node.right, ctx)
    IN  CASE node.operator \in {"&&", "||"} -> mergeTypes(leftType, rightType)
          [] node.operator = "??" ->
                 IF Gt(rightType.confidence, Rat(1, 2)) THEN rightType
                 ELSE mergeTypes(leftType, rightType)
          [] OTHER -> createUnknownType(Rat(3, 10))

inferConditionalExpressionType(node, ctx) ==
    LET consequentType == inferExpressionType(node.consequent, ctx)
        alternateType == inferExpressionType(node.alternate, ctx)
    IN  mergeTypes(consequentType, alternateType)

inferCallExpressionType(node, ctx) ==
    IF node.callee.type = "Identifier"
    THEN inferBuiltInFunctionReturnType(node.callee.name, node.arguments, ctx)
    ELSE IF node.callee.type = "MemberExpression"
    THEN inferMethodCallType(node.callee, node.arguments, ctx)
    ELSE createUnknownType(Rat(1, 5))

inferMethodCallType(memberExpr, args, ctx) ==
    IF memberExpr.computed \/ ~isExpression(memberExpr.property)
    THEN createUnknownType(Rat(1, 5))
    ELSE LET objectType == inferExpressionType(memberExpr.object, ctx)
         IN  IF memberExpr.property.type # "Identifier" THEN createUnknownType(Rat(1, 5))
             ELSE IF objectType.kind = "array"
             THEN inferArrayMethodReturnType(memberExpr.property.name, objectType, ctx)
             ELSE IF objectType.value = "string"
             THEN inferStringMethodReturnType(memberExpr.property.name)
             ELSE createUnknownType(Rat(1, 5))

inferMemberExpressionType(node, ctx) ==
    LET objectType == inferExpressionType(node.object, ctx)
    IN  IF /\ objectType.kind = "array"
           /\ ~node.computed
           /\ isExpression(node.property)
           /\ node.property.type = "NumericLiteral"
        THEN createPrimitiveType(Replace(objectType.value, "[]", "") \o " | undefined",
                                 Rat(9, 10))
        ELSE createUnknownType(Rat(1, 5))

\* String(n) of a non-negative integer.
RECURSIVE NumberToString(_)
NumberToString(n) ==
    IF n < 10 THEN SubSeq("0123456789", n + 1, n + 1)
    ELSE NumberToString(n \div 10) \o SubSeq("0123456789", (n % 10) + 1, (n % 10) + 1)

\* !/^[a-zA-Z_$][a-zA-Z0-9_$]*$/.test(name)
needsQuotes(name) ==
    LET Chars(s) == {SubSeq(s, i, i) : i \in 1..Len(s)}
        IdentifierStart == Chars("abcdefghijklmnopqrstuvwxyzABCDEFGHIJKLMNOPQRSTUVWXYZ_$")
        IdentifierPart == IdentifierStart \cup Chars("0123456789")
    IN  ~ /\ Len(name) > 0
          /\ SubSeq(name, 1, 1) \in IdentifierStart
          /\ \A i \in 2..Len(name) : SubSeq(name, i, i) \in IdentifierPart

buildInlineObjectType(properties) ==
    IF Len(properties) = 0 THEN "{}"
    ELSE LET propStrings ==
                 [i \in 1..Len(properties) |->
                     LET prop == properties[i]
                         optionalMarker == IF prop.optional THEN "?" ELSE ""
                         propName == IF needsQuotes(prop.name)
                                     THEN "\"" \o prop.name \o "\""
                                     ELSE prop.name
                     IN  propName \o optionalMarker \o ": " \o prop.type.value]
         IN  "{ " \o Join(propStrings, "; ") \o " }"

RECURSIVE InterfaceNameFrom(_, _)
InterfaceNameFrom(ctx, counter) ==
    LET name == "Interface" \o NumberToString(counter)
    IN  IF name \in DOMAIN ctx.interfaces THEN InterfaceNameFrom(ctx, counter + 1) ELSE name

\* The name numbered by the size of the map, taken or not.
generateInterfaceNameBySize(ctx) ==
    "Interface" \o NumberToString(Cardinality(DOMAIN ctx.interfaces) + 1)

generateInterfaceName(ctx) ==
    InterfaceNameFrom(ctx, Cardinality(DOMAIN ctx.interfaces) + 1)

\* The statements of a function body that return, in source order; a nested
\* function is not entered.
RECURSIVE collectReturnStatements(_)
RECURSIVE CollectEach(_, _)
RECURSIVE CollectCases(_, _)
CollectEach(statements, i) ==
    IF i > Len(statements) THEN <<>>
    ELSE collectReturnStatements(statements[i]) \o CollectEach(statements, i + 1)

CollectCases(cases, i) ==
    IF i > Len(cases) THEN <<>>
    ELSE CollectEach(cases[i].consequent, 1) \o CollectCases(cases, i + 1)

\* The collection with a nested function declaration entered like a block.
collectReturnStatementsEntersFunctions(node) ==
    CASE node.type = "ReturnStatement" -> <<node>>
      [] node.type = "BlockStatement" -> CollectEach(node.body, 1)
      [] node.type = "IfStatement" ->
             collectReturnStatements(node.consequent)
             \o (IF node.alternate # Null THEN collectReturnStatements(node.alternate)
                 ELSE <<>>)
      [] node.type \in {"WhileStatement", "DoWhileStatement"} ->
             collectReturnStatements(node.body)
      [] node.type \in {"ForStatement", "ForInStatement", "ForOfStatement"} ->
             collectReturnStatements(node.body)
      [] node.type = "SwitchStatement" -> CollectCases(node.cases, 1)
      [] node.type = "TryStatement" ->
             collectReturnStatements(node.block)
             \o (IF node.handler # Null THEN collectReturnStatements(node.handler.body)
                 ELSE <<>>)
             \o (IF node.finalizer # Null THEN collectReturnStatements(node.finalizer)
                 ELSE <<>>)
      [] node.type = "LabeledStatement" -> collectReturnStatements(node.body)
      [] node.type = "FunctionDeclaration" -> collectReturnStatements(node.body)
      [] OTHER -> <<>>

collectReturnStatements(node) ==
    CASE node.type = "ReturnStatement" -> <<node>>
      [] node.type = "BlockStatement" -> CollectEach(node.body, 1)
      [] node.type = "IfStatement" ->
             collectReturnStatements(node.consequent)
             \o (IF node.alternate # Null THEN collectReturnStatements(node.alternate)
                 ELSE <<>>)
      [] node.type \in {"WhileStatement", "DoWhileStatement"} ->
             collectReturnStatements(node.body)
      [] node.type \in {"ForStatement", "ForInStatement", "ForOfStatement"} ->
             collectReturnStatements(node.body)
      [] node.type = "SwitchStatement" -> CollectCases(node.cases, 1)
      [] node.type = "TryStatement" ->
             collectReturnStatements(node.block)
             \o (IF node.handler # Null THEN collectReturnStatements(node.handler.body)
                 ELSE <<>>)
             \o (IF node.finalizer # Null THEN collectReturnStatements(node.finalizer)
                 ELSE <<>>)
      [] node.type = "LabeledStatement" -> collectReturnStatements(node.body)
      [] OTHER -> <<>>

\* The confidence of the first of the types from i on.
MathMinTakesFirst(types, i) == types[i].confidence

\* Math.min(...confidences)
RECURSIVE MathMin(_, _)
MathMin(types, i) ==
    IF i = Len(types) THEN types[i].confidence
    ELSE Min(types[i].confidence, MathMin(types, i + 1))

\* The types of the returns of a function with a block body, in source order.
ReturnTypes(node, ctx) ==
    LET returnStatements ==
            IF node.body.type = "BlockStatement"
            THEN collectReturnStatements(node.body)
            ELSE <<>>
    IN  [i \in 1..Len(returnStatements) |->
            IF returnStatements[i].argument # Null
            THEN inferExpressionType(returnStatements[i].argument, ctx)
            ELSE createPrimitiveType("void", Rat(1, 1))]

\* The merge of the types of the returns with the confidence the merge itself
\* gives to returns of one descriptor.
MergeReturnTypesKeepsMerged(returnTypes) ==
    IF Len(returnTypes) = 0 THEN createPrimitiveType("void", Rat(1, 1))
    ELSE IF \A i \in 1..Len(returnTypes) : returnTypes[i].value = "void"
    THEN createPrimitiveType("void", Rat(1, 1))
    ELSE LET mergedType == MergeLoop(returnTypes[1], returnTypes, 2)
             allSameType ==
                 \A i \in 1..Len(returnTypes) : returnTypes[i].value = returnTypes[1].value
             confidence ==
                 IF allSameType THEN mergedType.confidence
                 ELSE Mul(mergedType.confidence, Rat(17, 20))
         IN  [mergedType EXCEPT !.confidence = confidence]

\* What inferFunctionReturnType makes of the types of the returns.
MergeReturnTypes(returnTypes) ==
    IF Len(returnTypes) = 0 THEN createPrimitiveType("void", Rat(1, 1))
    ELSE IF \A i \in 1..Len(returnTypes) : returnTypes[i].value = "void"
    THEN createPrimitiveType("void", Rat(1, 1))
    ELSE LET mergedType == MergeLoop(returnTypes[1], returnTypes, 2)
             allSameType ==
                 \A i \in 1..Len(returnTypes) : returnTypes[i].value = returnTypes[1].value
             confidence ==
                 IF allSameType THEN MathMin(returnTypes, 1)
                 ELSE Mul(mergedType.confidence, Rat(17, 20))
         IN  [mergedType EXCEPT !.confidence = confidence]

inferFunctionReturnType(node, ctx) ==
    IF node.type = "ArrowFunctionExpression" /\ node.body.type # "BlockStatement"
    THEN inferExpressionType(node.body, ctx)
    ELSE MergeReturnTypes(ReturnTypes(node, ctx))

\* The evidence with the operand of ! taken for a number.
analyzeExpressionNotAsNumber(expr, paramName) ==
    LET IsParam(n) == n.type = "Identifier" /\ n.name = paramName
        Arithmetic == {"-", "*", "/", "%", "**"}
    IN  CASE expr.type = "BinaryExpression" ->
                 (IF IsParam(expr.left) /\ expr.operator \in Arithmetic
                  THEN <<createPrimitiveType("number", Rat(4, 5))>> ELSE <<>>)
                 \o (IF IsParam(expr.right) /\ expr.operator \in Arithmetic
                     THEN <<createPrimitiveType("number", Rat(4, 5))>> ELSE <<>>)
          [] expr.type = "UnaryExpression" ->
                 IF ~IsParam(expr.argument) THEN <<>>
                 ELSE IF expr.operator \in {"+", "-", "~"}
                 THEN <<createPrimitiveType("number", Rat(4, 5))>>
                 ELSE IF expr.operator = "!"
                 THEN <<createPrimitiveType("number", Rat(4, 5))>>
                 ELSE <<>>
          [] expr.type = "MemberExpression" ->
                 IF ~(IsParam(expr.object) /\ expr.property.type = "Identifier"
                      /\ ~expr.computed)
                 THEN <<>>
                 ELSE LET methodName == expr.property.name
                      IN  IF methodName \in
                                 {"map", "filter", "reduce", "forEach", "find", "some",
                                  "every", "push", "pop", "shift", "unshift", "slice",
                                  "splice", "join"}
                          THEN <<createArrayType("unknown", Rat(7, 10))>>
                          ELSE IF methodName \in
                                 {"toLowerCase", "toUpperCase", "trim", "split",
                                  "substring", "substr", "charAt", "charCodeAt",
                                  "startsWith", "endsWith", "replace", "replaceAll",
                                  "match", "search", "padStart", "padEnd", "repeat",
                                  "concat"}
                          THEN <<createPrimitiveType("string", Rat(7, 10))>>
                          ELSE <<>>
          [] expr.type = "CallExpression" ->
                 IF IsParam(expr.callee)
                 THEN <<createPrimitiveType("Function", Rat(4, 5))>>
                 ELSE <<>>
          [] OTHER -> <<>>

\* The evidence one expression gives about the parameter paramName.
analyzeExpression(expr, paramName) ==
    LET IsParam(n) == n.type = "Identifier" /\ n.name = paramName
        Arithmetic == {"-", "*", "/", "%", "**"}
    IN  CASE expr.type = "BinaryExpression" ->
                 (IF IsParam(expr.left) /\ expr.operator \in Arithmetic
                  THEN <<createPrimitiveType("number", Rat(4, 5))>> ELSE <<>>)
                 \o (IF IsParam(expr.right) /\ expr.operator \in Arithmetic
                     THEN <<createPrimitiveType("number", Rat(4, 5))>> ELSE <<>>)
          [] expr.type = "UnaryExpression" ->
                 IF ~IsParam(expr.argument) THEN <<>>
                 ELSE IF expr.operator \in {"+", "-", "~"}
                 THEN <<createPrimitiveType("number", Rat(4, 5))>>
                 ELSE IF expr.operator = "!"
                 THEN <<createPrimitiveType("boolean", Rat(7, 10))>>
                 ELSE <<>>
          [] expr.type = "MemberExpression" ->
                 IF ~(IsParam(expr.object) /\ expr.property.type = "Identifier"
                      /\ ~expr.computed)
                 THEN <<>>
                 ELSE LET methodName == expr.property.name
                      IN  IF methodName \in
                                 {"map", "filter", "reduce", "forEach", "find", "some",
                                  "every", "push", "pop", "shift", "unshift", "slice",
                                  "splice", "join"}
                          THEN <<createArrayType("unknown", Rat(7, 10))>>
                          ELSE IF methodName \in
                                 {"toLowerCase", "toUpperCase", "trim", "split",
                                  "substring", "substr", "charAt", "charCodeAt",
                                  "startsWith", "endsWith", "replace", "replaceAll",
                                  "match", "search", "padStart", "padEnd", "repeat",
                                  "concat"}
                          THEN <<createPrimitiveType("string", Rat(7, 10))>>
                          ELSE <<>>
          [] expr.type = "CallExpression" ->
                 IF IsParam(expr.callee)
                 THEN <<createPrimitiveType("Function", Rat(4, 5))>>
                 ELSE <<>>
          [] OTHER -> <<>>

RECURSIVE traverseNode(_, _)
RECURSIVE TraverseEach(_, _, _)
\* for (const n of nodes) { if (n is an expression or statement to enter) traverseNode(n) }
TraverseEach(nodes, i, paramName) ==
    IF i > Len(nodes) THEN <<>>
    ELSE traverseNode(nodes[i], paramName) \o TraverseEach(nodes, i + 1, paramName)

traverseNode(node, paramName) ==
    CASE node.type = "BlockStatement" -> TraverseEach(node.body, 1, paramName)
      [] node.type = "ExpressionStatement" ->
             analyzeExpression(node.expression, paramName)
             \o traverseNode(node.expression, paramName)
      [] node.type = "ReturnStatement" ->
             IF node.argument = Null THEN <<>>
             ELSE analyzeExpression(node.argument, paramName)
                  \o traverseNode(node.argument, paramName)
      [] node.type = "IfStatement" ->
             analyzeExpression(node.test, paramName)
             \o traverseNode(node.test, paramName)
             \o traverseNode(node.consequent, paramName)
             \o (IF node.alternate # Null THEN traverseNode(node.alternate, paramName)
                 ELSE <<>>)
      [] node.type = "VariableDeclaration" ->
             LET Initialised(declarator) == declarator.init # Null
                 inits == SelectSeq(node.declarations, Initialised)
                 Both(declarator) ==
                     [type |-> "ExpressionStatement", expression |-> declarator.init]
             IN  TraverseEach([i \in 1..Len(inits) |-> Both(inits[i])], 1, paramName)
      [] node.type \in {"BinaryExpression", "LogicalExpression"} ->
             analyzeExpression(node, paramName)
             \o traverseNode(node.left, paramName)
             \o traverseNode(node.right, paramName)
      [] node.type = "UnaryExpression" ->
             analyzeExpression(node, paramName) \o traverseNode(node.argument, paramName)
      [] node.type = "MemberExpression" ->
             analyzeExpression(node, paramName)
             \o traverseNode(node.object, paramName)
             \o (IF isExpression(node.property) THEN traverseNode(node.property, paramName)
                 ELSE <<>>)
      [] node.type = "CallExpression" ->
             analyzeExpression(node, paramName)
             \o traverseNode(node.callee, paramName)
             \o TraverseEach(SelectSeq(node.arguments, isExpression), 1, paramName)
      [] node.type = "ArrayExpression" ->
             TraverseEach(SelectSeq(node.elements, isExpression), 1, paramName)
      [] OTHER -> <<>>

\* The evidence the body of functionNode gives about the parameter paramName.
UsageTypes(paramName, functionNode) ==
    IF functionNode.body.type = "BlockStatement"
    THEN traverseNode(functionNode.body, paramName)
    ELSE IF isExpression(functionNode.body)
    THEN analyzeExpression(functionNode.body, paramName)
         \o traverseNode(functionNode.body, paramName)
    ELSE <<>>

MergeUsageTypes(usageTypes) ==
    IF Len(usageTypes) = 0 THEN createUnknownType(Rat(3, 10))
    ELSE MergeLoop(usageTypes[1], usageTypes, 2)

inferParameterTypeFromUsage(param, functionNode, ctx) ==
    MergeUsageTypes(UsageTypes(param.name, functionNode))

RECURSIVE inferParameterType(_, _, _)

\* The type of a parameter when a default-valued parameter is inferred like
\* the binding it declares.
inferParameterTypeOfBinding(param, functionNode, ctx) ==
    CASE param.type = "RestElement" ->
             LET elementType == inferParameterType(param.argument, functionNode, ctx)
             IN  createArrayType(elementType.value, Mul(elementType.confidence, Rat(9, 10)))
      [] param.type = "AssignmentPattern" -> inferParameterType(param.left, functionNode, ctx)
      [] param.type = "ArrayPattern" -> createArrayType("unknown", Rat(1, 2))
      [] param.type = "ObjectPattern" -> createPrimitiveType("object", Rat(1, 2))
      [] param.type = "Identifier" -> inferParameterTypeFromUsage(param, functionNode, ctx)
      [] OTHER -> createUnknownType(Rat(0, 1))

inferParameterType(param, functionNode, ctx) ==
    CASE param.type = "RestElement" ->
             LET elementType == inferParameterType(param.argument, functionNode, ctx)
             IN  createArrayType(elementType.value, Mul(elementType.confidence, Rat(9, 10)))
      [] param.type = "AssignmentPattern" -> inferExpressionType(param.right, ctx)
      [] param.type = "ArrayPattern" -> createArrayType("unknown", Rat(1, 2))
      [] param.type = "ObjectPattern" -> createPrimitiveType("object", Rat(1, 2))
      [] param.type = "Identifier" -> inferParameterTypeFromUsage(param, functionNode, ctx)
      [] OTHER -> createUnknownType(Rat(0, 1))

inferParameterTypes(node, ctx) ==
    [i \in 1..Len(node.params) |-> inferParameterType(node.params[i], node, ctx)]

\* The function type of an object method, from its return and parameter types.
MethodType(returnType, paramTypes) ==
    LET paramSignature ==
            Join([idx \in 1..Len(paramTypes) |->
                     "arg" \o NumberToString(idx - 1) \o ": " \o paramTypes[idx].value],
                 ", ")
    IN  createFunctionType("(" \o paramSignature \o ") => " \o returnType.value,
                           returnType.confidence)

\* The type of the property prop of an object literal.
ObjectPropertyType(prop, ctx) ==
    IF prop.type = "ObjectMethod"
    THEN MethodType(inferFunctionReturnType(prop, ctx), inferParameterTypes(prop, ctx))
    ELSE IF isExpression(prop.value)
    THEN IF prop.value.type = "ObjectExpression"
         THEN inferObjectShape(prop.value, ctx)
         ELSE inferExpressionType(prop.value, ctx)
    ELSE createUnknownType(Rat(3, 10))

\* The name of the property prop, when its key gives one.
PropertyName(prop) ==
    IF prop.key.type = "Identifier" /\ ~prop.computed THEN Some(prop.key.name)
    ELSE IF prop.key.type = "StringLiteral" THEN Some(prop.key.value)
    ELSE IF prop.key.type = "NumericLiteral" THEN Some(NumberToString(prop.key.numericValue))
    ELSE Undefined

RECURSIVE SumConfidence(_, _)
SumConfidence(properties, i) ==
    IF i > Len(properties) THEN Rat(0, 1)
    ELSE Add(properties[i].type.confidence, SumConfidence(properties, i + 1))

\* The object type built when only nested objects and long literals count
\* towards an interface, methods not.
ObjectTypeOfWithoutMethods(properties, ctx) ==
    LET propertyCount == Len(properties)
        totalConfidence == SumConfidence(properties, 1)
        avgConfidence ==
            IF propertyCount > 0 THEN Div(totalConfidence, Rat(propertyCount, 1))
            ELSE Rat(1, 2)
        typeString == buildInlineObjectType(properties)
        shouldHaveInterface ==
            \/ Len(properties) > 3
            \/ \E j \in 1..Len(properties) : properties[j].type.kind = "object"
    IN  IF shouldHaveInterface
        THEN createObjectType(typeString, avgConfidence, TRUE,
                              Some(generateInterfaceName(ctx)))
        ELSE createObjectType(typeString, avgConfidence, FALSE, Undefined)

\* The object type built with the confidences of the properties added up and
\* not averaged.
ObjectTypeOfSummed(properties, ctx) ==
    LET totalConfidence == SumConfidence(properties, 1)
        typeString == buildInlineObjectType(properties)
        shouldHaveInterface ==
            \/ Len(properties) > 3
            \/ \E j \in 1..Len(properties) :
                   properties[j].type.kind \in {"object", "function"}
    IN  IF shouldHaveInterface
        THEN createObjectType(typeString, totalConfidence, TRUE,
                              Some(generateInterfaceName(ctx)))
        ELSE createObjectType(typeString, totalConfidence, FALSE, Undefined)

\* The object type inferObjectShape builds from the properties it collected.
ObjectTypeOf(properties, ctx) ==
    LET propertyCount == Len(properties)
        totalConfidence == SumConfidence(properties, 1)
        avgConfidence ==
            IF propertyCount > 0 THEN Div(totalConfidence, Rat(propertyCount, 1))
            ELSE Rat(1, 2)
        typeString == buildInlineObjectType(properties)
        shouldHaveInterface ==
            \/ Len(properties) > 3
            \/ \E j \in 1..Len(properties) :
                   properties[j].type.kind \in {"object", "function"}
    IN  IF shouldHaveInterface
        THEN createObjectType(typeString, avgConfidence, TRUE,
                              Some(generateInterfaceName(ctx)))
        ELSE createObjectType(typeString, avgConfidence, FALSE, Undefined)

RECURSIVE ObjectShapeLoop(_, _, _, _)

\* The loop of inferObjectShape with a spread property passed over.
ObjectShapeLoopPastSpread(node, ctx, i, properties) ==
    IF i > Len(node.properties) THEN ObjectTypeOf(properties, ctx)
    ELSE LET prop == node.properties[i]
         IN  IF prop.type \notin {"ObjectProperty", "ObjectMethod"}
             THEN ObjectShapeLoop(node, ctx, i + 1, properties)
             ELSE IF PropertyName(prop) = Undefined
             THEN createObjectType("object", Rat(1, 2), FALSE, Undefined)
             ELSE ObjectShapeLoop(node, ctx, i + 1,
                      Append(properties,
                             [name |-> CHOOSE name \in PropertyName(prop) : TRUE,
                              type |-> ObjectPropertyType(prop, ctx),
                              optional |-> FALSE,
                              method |-> prop.type = "ObjectMethod"]))

\* The loop of inferObjectShape from the i-th property on, and what follows it.
ObjectShapeLoop(node, ctx, i, properties) ==
    IF i > Len(node.properties) THEN ObjectTypeOf(properties, ctx)
    ELSE LET prop == node.properties[i]
         IN  IF prop.type = "SpreadElement"
             THEN createObjectType("object", Rat(1, 2), FALSE, Undefined)
             ELSE IF prop.type \notin {"ObjectProperty", "ObjectMethod"}
             THEN ObjectShapeLoop(node, ctx, i + 1, properties)
             ELSE IF PropertyName(prop) = Undefined
             THEN createObjectType("object", Rat(1, 2), FALSE, Undefined)
             ELSE ObjectShapeLoop(node, ctx, i + 1,
                      Append(properties,
                             [name |-> CHOOSE name \in PropertyName(prop) : TRUE,
                              type |-> ObjectPropertyType(prop, ctx),
                              optional |-> FALSE,
                              method |-> prop.type = "ObjectMethod"]))

inferObjectShape(node, ctx) ==
    IF Len(node.properties) = 0
    THEN createObjectType("{}", Rat(4, 5), FALSE, Undefined)
    ELSE ObjectShapeLoop(node, ctx, 1, <<>>)

inferVariableType(node, ctx) ==
    IF node.init = Null THEN createUnknownType(Rat(0, 1))
    ELSE inferExpressionType(node.init, ctx)

(***************************************************************************)
(* mergeTypes applied to two types built by the constructors.              *)
(***************************************************************************)
Confidences == {Rat(0, 1), Rat(1, 2), Rat(4, 5), Rat(1, 1)}

MemberNames == {"string", "number", "unknown"}

\* The sequences of n different elements of S.
DistinctSeqs(S, n) ==
    {seq \in [1..n -> S] : \A i, j \in 1..n : i # j => seq[i] # seq[j]}

InferredTypes ==
    {createPrimitiveType(v, c) : v \in MemberNames \cup {"string | number"}, c \in Confidences}
    \cup {createArrayType("number", c) : c \in Confidences}
    \cup {createObjectType("{ x: number }", c, FALSE, Undefined) : c \in Confidences}
    \cup {createObjectType("{ x: number }", c, TRUE, Some("Interface1")) : c \in Confidences}
    \cup {createFunctionType("() => void", c) : c \in Confidences}
    \cup {createUnionType(ms, c) :
            ms \in UNION {DistinctSeqs(MemberNames, n) : n \in 1..MaxMembers},
            c \in Confidences}
    \cup {createUnknownType(c) : c \in Confidences}

MergeInit ==
    /\ context = createTypeContext
    /\ call \in {[fn |-> "mergeTypes", type1 |-> a, type2 |-> b] : a, b \in InferredTypes}
    /\ ret = Undefined
    /\ pc = "called"

CallMergeTypes ==
    /\ pc = "called"
    /\ call.fn = "mergeTypes"
    /\ ret' = Some(mergeTypes(call.type1, call.type2))
    /\ pc' = "returned"
    /\ UNCHANGED <<context, call>>

MergeNext == CallMergeTypes

MergeSpec == MergeInit /\ [][MergeNext]_vars

Merged == pc = "returned" /\ call.fn = "mergeTypes"

(***************************************************************************)
(* createInterfaceDefinition and areInterfacesEqual applied to two         *)
(* property lists, the second a reordering of the first, the first with    *)
(* one property replaced, or a short list of its own.                      *)
(***************************************************************************)
PropertyDefinitions ==
    {createPropertyDefinition("a", "string", FALSE, FALSE),
     createPropertyDefinition("a", "number", FALSE, FALSE),
     createPropertyDefinition("a", "string", TRUE, FALSE),
     createPropertyDefinition("a", "string", FALSE, TRUE),
     createPropertyDefinition("a?", "string", FALSE, FALSE),
     createPropertyDefinition("b", "number", FALSE, FALSE),
     createPropertyDefinition("Aa", "string", FALSE, FALSE),
     createPropertyDefinition("BB", "string", FALSE, FALSE)}

PropertyLists == UNION {[1..n -> PropertyDefinitions] : n \in 0..MaxProps}

IndexOrders(n) == DistinctSeqs(1..n, n)

Reorderings(properties) ==
    {[i \in 1..Len(properties) |-> properties[perm[i]]] : perm \in IndexOrders(Len(properties))}

Replacements(properties) ==
    {[properties EXCEPT ![i] = p] : i \in 1..Len(properties), p \in PropertyDefinitions}

InterfaceNames == {"Point", "Coordinate"}

HashInit ==
    /\ context = createTypeContext
    /\ call \in {[fn |-> "areInterfacesEqual",
                  name1 |-> "Point", properties1 |-> p1,
                  name2 |-> n2, properties2 |-> p2, defs |-> <<>>] :
                    n2 \in InterfaceNames,
                    p1 \in PropertyLists,
                    p2 \in PropertyLists}
    /\ call.properties2 \in Reorderings(call.properties1)
                            \cup Replacements(call.properties1)
                            \cup [1..1 -> PropertyDefinitions] \cup {<<>>}
    /\ ret = Undefined
    /\ pc = "called"

CreateInterfaceDefinition ==
    /\ pc = "called"
    /\ call.fn = "areInterfacesEqual"
    /\ Len(call.defs) < 2
    /\ call' = [call EXCEPT !.defs =
                   IF Len(call.defs) = 0
                   THEN <<createInterfaceDefinition(call.name1, call.properties1)>>
                   ELSE Append(call.defs,
                               createInterfaceDefinition(call.name2, call.properties2))]
    /\ UNCHANGED <<context, ret, pc>>

AreInterfacesEqual ==
    /\ pc = "called"
    /\ call.fn = "areInterfacesEqual"
    /\ Len(call.defs) = 2
    /\ ret' = Some(areInterfacesEqual(call.defs[1], call.defs[2]))
    /\ pc' = "returned"
    /\ UNCHANGED <<context, call>>

HashNext == CreateInterfaceDefinition \/ AreInterfacesEqual

HashSpec == HashInit /\ [][HashNext]_vars

Compared == pc = "returned" /\ call.fn = "areInterfacesEqual"

(***************************************************************************)
(* The left-to-right fold of mergeTypes over three types, as the loops of  *)
(* inferArrayType and inferFunctionReturnType run it.                      *)
(***************************************************************************)
FoldTypes ==
    {createPrimitiveType(v, c) :
        v \in {"string", "number", "string | number"},
        c \in {Rat(1, 2), Rat(4, 5), Rat(1, 1)}}
    \cup {createArrayType("number", c) : c \in {Rat(1, 2), Rat(4, 5), Rat(1, 1)}}
    \cup {createObjectType("{ x: number }", c, FALSE, Undefined) :
             c \in {Rat(1, 2), Rat(4, 5), Rat(1, 1)}}
    \cup {createUnionType(<<"string", "number">>, Rat(1, 2)), createUnknownType(Rat(0, 1))}

\* let mergedType = types[0]
FoldInit ==
    /\ context = createTypeContext
    /\ call \in {[fn |-> "fold", types |-> types, i |-> 2] : types \in [1..3 -> FoldTypes]}
    /\ ret = Some(call.types[1])
    /\ pc = "folding"

\* mergedType = mergeTypes(mergedType, types[i]); i++
FoldStep ==
    /\ pc = "folding"
    /\ ret' = Some(mergeTypes(result, call.types[call.i]))
    /\ call' = [call EXCEPT !.i = @ + 1]
    /\ pc' = IF call.i = Len(call.types) THEN "returned" ELSE "folding"
    /\ UNCHANGED context

FoldNext == FoldStep

FoldSpec == FoldInit /\ [][FoldNext]_vars

(***************************************************************************)
(* The inferrer at work: a caller fills the context and asks for the type  *)
(* of declarators, object literals and functions.                          *)
(***************************************************************************)
idFoo == identifier("foo")
idX == identifier("x")

Literals ==
    {stringLiteral("hello"), stringLiteral(""),
     numericLiteral(42), numericLiteral(0),
     booleanLiteral(TRUE), booleanLiteral(FALSE),
     nullLiteral,
     templateLiteral(<<"plain">>, <<>>), templateLiteral(<<"a ", "">>, <<idX>>),
     bigIntLiteral("10"), bigIntLiteral("0"),
     regExpLiteral("a+", "g"), regExpLiteral("x", "")}

Identifiers == {identifier(name) : name \in {"x", "foo", "undefined", "NaN", "Infinity"}}

\* The operands of the composite expressions: leaves, and expressions whose
\* type is a union, an array, an object, or a descriptor with ' | ' in it.
Operands ==
    {stringLiteral("hello"), numericLiteral(42), nullLiteral, idX, idFoo,
     binaryExpression("+", idFoo, idFoo),
     conditionalExpression(idFoo, stringLiteral("hello"), numericLiteral(42)),
     arrayExpression(<<numericLiteral(42)>>),
     callExpression(memberExpression(arrayExpression(<<numericLiteral(42)>>),
                                     identifier("pop"), FALSE), <<>>),
     objectExpression(<<objectProperty(identifier("a"), numericLiteral(42), FALSE)>>)}

SeqsUpTo(S, n) == UNION {[1..k -> S] : k \in 0..n}

ArrayExpressions ==
    {arrayExpression(elements) :
        elements \in SeqsUpTo(Operands \cup {Null, spreadElement(idX)}, MaxElems)}

UnaryOperators == {"!", "+", "-", "~", "typeof", "void", "delete", "throw"}
BinaryOperators == {"===", "-", "+", "|>"}
LogicalOperators == {"&&", "||", "??"}
BuiltIns ==
    {"String", "Number", "parseInt", "parseFloat", "Boolean", "Array", "Object", "Date",
     "RegExp", "Promise", "foo"}
MethodNames ==
    {"map", "filter", "slice", "concat", "find", "pop", "shift", "reduce", "join",
     "indexOf", "lastIndexOf", "findIndex", "length", "includes", "some", "every",
     "forEach", "push", "unshift", "charAt", "toUpperCase", "trim", "split", "search",
     "startsWith", "match", "other"}

\* Array literals as receivers of a method call: an array of arrays, an array of
\* a union, an array of a union with an array among its members.
ArrayReceivers ==
    {arrayExpression(<<arrayExpression(<<numericLiteral(42)>>)>>),
     arrayExpression(<<stringLiteral("hello"), numericLiteral(42)>>),
     arrayExpression(<<arrayExpression(<<numericLiteral(42)>>), stringLiteral("hello")>>)}

CallExpressions ==
    {callExpression(identifier(name), <<>>) : name \in BuiltIns}
    \cup {callExpression(memberExpression(object, identifier(name), FALSE), <<idX>>) :
             object \in Operands, name \in MethodNames}
    \cup {callExpression(memberExpression(object, property, TRUE), <<>>) :
             object \in Operands, property \in {identifier("pop"), stringLiteral("pop")}}
    \cup {callExpression(memberExpression(object, property, FALSE), <<>>) :
             object \in Operands, property \in {privateName("p")}}
    \cup {callExpression(memberExpression(object, identifier(name), FALSE), <<idX>>) :
             object \in ArrayReceivers, name \in MethodNames}
    \cup {callExpression(callExpression(idFoo, <<>>), <<>>)}

MemberExpressions ==
    {memberExpression(object, property, computed) :
        object \in Operands,
        property \in {identifier("length"), numericLiteral(0)},
        computed \in BOOLEAN}
    \cup {memberExpression(object, privateName("p"), FALSE) : object \in Operands}
    \cup {memberExpression(object, numericLiteral(0), computed) :
             object \in ArrayReceivers, computed \in BOOLEAN}

ObjectProperties ==
    {objectProperty(identifier("a"), numericLiteral(42), FALSE),
     objectProperty(identifier("b"), idX, FALSE),
     objectProperty(stringLiteral("b-c"), objectExpression(<<>>), FALSE),
     objectProperty(numericLiteral(12), binaryExpression("+", idFoo, idFoo), FALSE),
     objectProperty(identifier("k"), stringLiteral("hello"), TRUE),
     objectProperty(stringLiteral("k"), numericLiteral(42), TRUE),
     objectProperty(bigIntLiteral("1"), numericLiteral(42), FALSE),
     objectProperty(identifier("d"),
                    assignmentPattern(identifier("d"), numericLiteral(42)), FALSE),
     spreadElement(idX),
     objectMethod(identifier("m"), <<identifier("p")>>,
                  blockStatement(<<returnStatement(unaryExpression("-", identifier("p")))>>),
                  FALSE)}

\* { a: 42, b: x, 12: foo + foo } and the same with a fourth property d.
LongObjectExpressions ==
    LET three == <<objectProperty(identifier("a"), numericLiteral(42), FALSE),
                   objectProperty(identifier("b"), idX, FALSE),
                   objectProperty(numericLiteral(12), binaryExpression("+", idFoo, idFoo),
                                  FALSE)>>
    IN  {objectExpression(three),
         objectExpression(Append(three,
             objectProperty(identifier("d"),
                            assignmentPattern(identifier("d"), numericLiteral(42)), FALSE)))}

\* { o: { "b-c": {} } }
NestedObjectExpression ==
    objectExpression(<<
        objectProperty(identifier("o"),
            objectExpression(<<objectProperty(stringLiteral("b-c"), objectExpression(<<>>),
                                              FALSE)>>),
            FALSE)>>)

ObjectExpressions ==
    {objectExpression(properties) : properties \in SeqsUpTo(ObjectProperties, MaxProps)}
    \cup LongObjectExpressions \cup {NestedObjectExpression}

Expressions ==
    Literals \cup Identifiers \cup ArrayExpressions \cup ObjectExpressions
    \cup {unaryExpression(operator, argument) :
             operator \in UnaryOperators, argument \in Operands}
    \cup {binaryExpression(operator, left, right) :
             operator \in BinaryOperators, left \in Operands, right \in Operands}
    \cup {binaryExpression(operator, privateName("p"), idFoo) : operator \in {"in", "+"}}
    \cup {logicalExpression(operator, left, right) :
             operator \in LogicalOperators, left \in Operands, right \in Operands}
    \cup {conditionalExpression(idFoo, consequent, alternate) :
             consequent \in Operands, alternate \in Operands}
    \cup CallExpressions \cup MemberExpressions
    \cup {arrowFunctionExpression(<<>>, numericLiteral(42)),
          [type |-> "AssignmentExpression", operator |-> "=",
           left |-> idX, right |-> numericLiteral(42)]}

VariableDeclarators ==
    {variableDeclarator(identifier("v"), init) : init \in Expressions \cup {Null}}

idP == identifier("p")

Statements ==
    {returnStatement(Null),
     returnStatement(numericLiteral(42)),
     returnStatement(stringLiteral("hello")),
     returnStatement(binaryExpression("*", idP, idX)),
     expressionStatement(callExpression(memberExpression(idP, identifier("trim"), FALSE),
                                        <<>>)),
     ifStatement(unaryExpression("!", idP),
                 blockStatement(<<returnStatement(stringLiteral("hello"))>>),
                 returnStatement(binaryExpression("+", idFoo, idFoo))),
     [type |-> "WhileStatement", test |-> callExpression(idP, <<>>),
      body |-> returnStatement(idX)]}

Params ==
    {<<>>, <<idP>>,
     <<[type |-> "RestElement", argument |-> idP],
       assignmentPattern(identifier("d"), numericLiteral(42)),
       [type |-> "ArrayPattern", elements |-> <<idP>>],
       [type |-> "ObjectPattern", properties |-> <<>>]>>,
     <<assignmentPattern(idP, stringLiteral("hello")),
       [type |-> "RestElement",
        argument |-> [type |-> "ArrayPattern", elements |-> <<idX>>]]>>}

\* function f(p) { try { return 42 } catch (e) { return "hello" } finally { return } }
TryFunction ==
    [type |-> "FunctionDeclaration", id |-> identifier("f"), params |-> <<idP>>,
     body |-> blockStatement(<<
        [type |-> "TryStatement",
         block |-> blockStatement(<<returnStatement(numericLiteral(42))>>),
         handler |-> [type |-> "CatchClause", param |-> identifier("e"),
                      body |-> blockStatement(<<returnStatement(stringLiteral("hello"))>>)],
         finalizer |-> blockStatement(<<returnStatement(Null)>>)]>>)]

\* function f(p) { switch (p) { case 0: return 42 }
\*                 l: for (x of p) do return x; while (p)
\*                 const v = +p, w }
SwitchFunction ==
    [type |-> "FunctionDeclaration", id |-> identifier("f"), params |-> <<idP>>,
     body |-> blockStatement(<<
        [type |-> "SwitchStatement", discriminant |-> idP,
         cases |-> <<[type |-> "SwitchCase", test |-> numericLiteral(0),
                      consequent |-> <<returnStatement(numericLiteral(42))>>]>>],
        [type |-> "LabeledStatement", label |-> identifier("l"),
         body |-> [type |-> "ForOfStatement", left |-> idX, right |-> idP,
                   body |-> [type |-> "DoWhileStatement", test |-> idP,
                             body |-> returnStatement(idX)]]],
        [type |-> "VariableDeclaration", kind |-> "const",
         declarations |-> <<variableDeclarator(identifier("v"), unaryExpression("+", idP)),
                            variableDeclarator(identifier("w"), Null)>>]>>)]

\* function f(p) { if (p) { function g() { return null } }
\*                 for (;;) { return 42 }
\*                 for (k in p) return "hello" }
NestedFunction ==
    [type |-> "FunctionDeclaration", id |-> identifier("f"), params |-> <<idP>>,
     body |-> blockStatement(<<
        ifStatement(idP,
            blockStatement(<<
                [type |-> "FunctionDeclaration", id |-> identifier("g"), params |-> <<>>,
                 body |-> blockStatement(<<returnStatement(nullLiteral)>>)]>>),
            Null),
        [type |-> "ForStatement", init |-> Null, test |-> Null, update |-> Null,
         body |-> blockStatement(<<returnStatement(numericLiteral(42))>>)],
        [type |-> "ForInStatement", left |-> identifier("k"), right |-> idP,
         body |-> returnStatement(stringLiteral("hello"))]>>)]

\* function (p) { S } for one statement S that uses p, or does not:
\* p.map(x); p(); return p.length; p.includes(x); return x + p; x(p);
\* return p.slice(x) - p
UsageFunctions ==
    {functionExpression(<<idP>>, blockStatement(<<statement>>)) :
        statement \in
            {expressionStatement(
                 callExpression(memberExpression(idP, identifier("map"), FALSE), <<idX>>)),
             expressionStatement(callExpression(idP, <<>>)),
             returnStatement(memberExpression(idP, identifier("length"), FALSE)),
             expressionStatement(
                 callExpression(memberExpression(idP, identifier("includes"), FALSE),
                                <<idX>>)),
             returnStatement(binaryExpression("+", idX, idP)),
             expressionStatement(callExpression(idX, <<idP>>)),
             returnStatement(binaryExpression("-",
                 callExpression(memberExpression(idP, identifier("slice"), FALSE), <<idX>>),
                 idP))}}

Functions ==
    {functionExpression(params, blockStatement(body)) :
        params \in Params, body \in SeqsUpTo(Statements, MaxStmts)}
    \cup {arrowFunctionExpression(<<idP>>, body) :
             body \in {numericLiteral(42), unaryExpression("-", idP),
                       conditionalExpression(idFoo, binaryExpression("+", idFoo, idFoo),
                                             stringLiteral("hello"))}}
    \cup {TryFunction, SwitchFunction, NestedFunction}
    \cup UsageFunctions

\* The types a caller binds identifiers to.
ScopeNames == {"x", "undefined"}
ScopeTypes ==
    {createPrimitiveType("string", Rat(4, 5)),
     createUnionType(<<"string", "number">>, Rat(1, 2))}

\* No call is under way.
NoCall == [fn |-> "none"]

Init ==
    /\ context = createTypeContext
    /\ call = NoCall
    /\ ret = Undefined
    /\ pc = "idle"

\* context.scope.set(name, type)
ScopeSet ==
    /\ pc = "idle"
    /\ \E name \in ScopeNames, type \in ScopeTypes :
          /\ name \in DOMAIN context.scope \/ Cardinality(DOMAIN context.scope) < MaxScope
          /\ context' = [context EXCEPT !.scope = (name :> type) @@ @]
    /\ UNCHANGED <<call, ret, pc>>

InterfaceKeys == {"Interface1", "Interface2", "Interface3"}

\* context.interfaces.set(name, definition)
InterfacesSet ==
    /\ pc = "idle"
    /\ \E name \in InterfaceKeys :
          /\ name \notin DOMAIN context.interfaces
          /\ context' = [context EXCEPT !.interfaces =
                (name :> createInterfaceDefinition(name, <<>>)) @@ @]
    /\ UNCHANGED <<call, ret, pc>>

InferVariableType ==
    /\ pc = "idle"
    /\ \E node \in VariableDeclarators :
          /\ call' = [fn |-> "inferVariableType", node |-> node]
          /\ ret' = Some(inferVariableType(node, context))
    /\ pc' = "returned"
    /\ UNCHANGED context

\* The context with the interface of a promoted type registered under its name.
RegisterInterface(ctx, type) ==
    IF type.kind = "object" /\ type.needsInterface
    THEN [ctx EXCEPT !.interfaces =
             [name \in type.interfaceName |-> createInterfaceDefinition(name, <<>>)] @@ @]
    ELSE ctx

\* inferObjectShape as it would be if it registered the interface it names.
InferObjectShapeRegisters ==
    /\ pc = "idle"
    /\ \E node \in ObjectExpressions :
          /\ call' = [fn |-> "inferObjectShape", node |-> node]
          /\ ret' = Some(inferObjectShape(node, context))
          /\ context' = RegisterInterface(context, inferObjectShape(node, context))
    /\ pc' = "returned"

InferObjectShape ==
    /\ pc = "idle"
    /\ \E node \in ObjectExpressions :
          /\ call' = [fn |-> "inferObjectShape", node |-> node]
          /\ ret' = Some(inferObjectShape(node, context))
    /\ pc' = "returned"
    /\ UNCHANGED context

InferFunctionReturnType ==
    /\ pc = "idle"
    /\ \E node \in Functions :
          /\ call' = [fn |-> "inferFunctionReturnType", node |-> node]
          /\ ret' = Some(inferFunctionReturnType(node, context))
    /\ pc' = "returned"
    /\ UNCHANGED context

InferParameterTypes ==
    /\ pc = "idle"
    /\ \E node \in Functions :
          /\ call' = [fn |-> "inferParameterTypes", node |-> node]
          /\ ret' = Some(inferParameterTypes(node, context))
    /\ pc' = "returned"
    /\ UNCHANGED context

\* The caller takes the result.
Return ==
    /\ pc = "returned"
    /\ call' = NoCall
    /\ ret' = Undefined
    /\ pc' = "idle"
    /\ UNCHANGED context

Next ==
    \/ ScopeSet
    \/ InterfacesSet
    \/ InferVariableType
    \/ InferObjectShape
    \/ InferFunctionReturnType
    \/ InferParameterTypes
    \/ Return

Spec == Init /\ [][Next]_vars

Inferred(fn) == pc = "returned" /\ call.fn = fn

(***************************************************************************)
(* Properties of the type model.                                           *)
(***************************************************************************)
\* The ' | '-separated member descriptors of a descriptor.
Descriptors(type) == IF type.kind = "union" THEN Split(type.value, " | ") ELSE <<type.value>>

Occurrences(seq, v) == Cardinality({i \in 1..Len(seq) : seq[i] = v})

\* C1: merging a type that is not unknown with an unknown type of any
\* confidence, in either order, returns the other type unchanged: same kind,
\* value, confidence, needsInterface and interfaceName.
MergeIdentityWithUnknown ==
    Merged =>
        /\ (call.type1.kind # "unknown" /\ call.type2.kind = "unknown") => result = call.type1
        /\ (call.type1.kind = "unknown" /\ call.type2.kind # "unknown") => result = call.type2

MergeIdentityWithUnknownWitness ==
    /\ Merged
    /\ call.type1.kind = "unknown" /\ call.type1.confidence = Rat(1, 1)
    /\ call.type2.kind = "object" /\ call.type2.needsInterface
    /\ call.type2.confidence = Rat(1, 2)
    /\ result.interfaceName = Some("Interface1")

\* C2: when the operands have the same kind and value, mergeTypes returns the
\* second if its confidence is strictly greater and the first otherwise, so a
\* tie keeps the first and mergeTypes(x, x) = x.
MergeEqualKeepsHigherConfidence ==
    (Merged /\ call.type1.kind = call.type2.kind /\ call.type1.value = call.type2.value) =>
        /\ result = IF Gt(call.type2.confidence, call.type1.confidence)
                 THEN call.type2 ELSE call.type1
        /\ (call.type1 = call.type2 => result = call.type1)

MergeEqualKeepsHigherConfidenceWitness ==
    /\ Merged
    /\ call.type1.kind = "object" /\ call.type2.kind = "object"
    /\ call.type1.value = call.type2.value
    /\ call.type1.confidence = call.type2.confidence
    /\ call.type1.needsInterface /\ ~call.type2.needsInterface
    /\ result.needsInterface

\* C3: when the operands differ in kind or value and neither is unknown, the
\* result is a union whose confidence is the mean of the two confidences and
\* whose descriptor lists the members of the first operand followed by the
\* members of the second that the first does not have.
MergeDifferentMakesUnion ==
    (/\ Merged
     /\ ~(call.type1.kind = call.type2.kind /\ call.type1.value = call.type2.value)
     /\ call.type1.kind # "unknown" /\ call.type2.kind # "unknown") =>
        LET first == Descriptors(call.type1)
            NotYetPresent(m) == m \notin Range(first)
        IN  /\ result.kind = "union"
            /\ Add(result.confidence, result.confidence)
                   = Add(call.type1.confidence, call.type2.confidence)
            /\ result.value = Join(first \o SelectSeq(Descriptors(call.type2), NotYetPresent), " | ")

MergeDifferentMakesUnionWitness ==
    /\ Merged
    /\ call.type1 = createUnionType(<<"number", "string">>, Rat(4, 5))
    /\ call.type2 = createPrimitiveType("string | number", Rat(1, 2))
    /\ result.confidence = Rat(13, 20)
    /\ result.value = "number | string | string | number"

\* C4: merging a union with a type that is not a union and whose descriptor is
\* one of the union's members, in either order, gives a union whose descriptor
\* holds each of those members exactly once.
UnionMergeDeduplicates ==
    Merged =>
        \A pair \in {<<call.type1, call.type2>>, <<call.type2, call.type1>>} :
            LET members == Split(pair[1].value, " | ")
            IN  (/\ pair[1].kind = "union"
                 /\ pair[2].kind # "union"
                 /\ pair[2].value \in Range(members)) =>
                    /\ result.kind = "union"
                    /\ \A m \in Range(members) :
                           Occurrences(Split(result.value, " | "), m) = 1

UnionMergeDeduplicatesWitness ==
    /\ Merged
    /\ call.type1 = createPrimitiveType("string", Rat(1, 1))
    /\ call.type2 = createUnionType(<<"number", "string">>, Rat(1, 1))
    /\ result.value = "string | number"

(***************************************************************************)
(* Properties of the interface hash.                                       *)
(***************************************************************************)
\* What C7 calls the shape of a list: each property's name, type and optional flag.
Shape(properties) ==
    {<<properties[i].name, properties[i].type, properties[i].optional>> :
        i \in 1..Len(properties)}

SameProperties(p1, p2) ==
    /\ Len(p1) = Len(p2)
    /\ \A p \in Range(p1) \cup Range(p2) : Occurrences(p1, p) = Occurrences(p2, p)

\* C6: the hash of a property list is the hash of every reordering of it,
\* lists in which two properties share a name included, and the call leaves
\* the list it is given in its order.
HashPermutationInvariant ==
    Compared =>
        /\ call.defs[1].properties = call.properties1
        /\ call.defs[2].properties = call.properties2
        /\ SameProperties(call.properties1, call.properties2)
               => call.defs[1].hash = call.defs[2].hash

\* C7: two property lists that differ in some property's name, type or
\* optional flag have different hashes.
HashSensitiveToShape ==
    (Compared /\ Shape(call.properties1) # Shape(call.properties2))
        => call.defs[1].hash # call.defs[2].hash

\* C8: areInterfacesEqual is true exactly when the two hashes are equal, and
\* so for two definitions of the same property list under any two names.
InterfaceEqualityIgnoresName ==
    Compared =>
        /\ result = (call.defs[1].hash = call.defs[2].hash)
        /\ call.properties1 = call.properties2 => result

InterfaceEqualityIgnoresNameWitness ==
    /\ Compared
    /\ call.defs[1].name = "Point" /\ call.defs[2].name = "Coordinate"
    /\ Len(call.properties1) = 2
    /\ call.properties1 = call.properties2
    /\ result

(***************************************************************************)
(* Properties of the expression inferrer.                                  *)
(***************************************************************************)
\* The types an inference has just returned.
Results ==
    IF pc # "returned" THEN {}
    ELSE IF call.fn = "inferParameterTypes" THEN Range(result)
    ELSE {result}

\* C5: every union-kind type the inferrer returns lists each member descriptor
\* once: no descriptor occurs twice among the ' | '-separated members of value.
UnionMembersDistinct ==
    \A type \in Results :
        type.kind = "union" =>
            \A member \in Range(Descriptors(type)) :
                Occurrences(Descriptors(type), member) = 1

\* The descriptor the specification gives for each kind of literal.
LiteralDescriptor(nodeType) ==
    CASE nodeType = "StringLiteral" -> "string"
      [] nodeType = "NumericLiteral" -> "number"
      [] nodeType = "BooleanLiteral" -> "boolean"
      [] nodeType = "NullLiteral" -> "null"
      [] nodeType = "TemplateLiteral" -> "string"
      [] nodeType = "BigIntLiteral" -> "bigint"
      [] nodeType = "RegExpLiteral" -> "RegExp"

\* C9: a declarator initialised with a literal is inferred as the primitive of
\* the literal's kind at confidence 1, whatever the literal holds and whatever
\* the scope of the context binds.
LiteralsArePrimitive ==
    (/\ Inferred("inferVariableType")
     /\ call.node.init.type \in
            {"StringLiteral", "NumericLiteral", "BooleanLiteral", "NullLiteral",
             "TemplateLiteral", "BigIntLiteral", "RegExpLiteral"})
    => result = [kind |-> "primitive",
              value |-> LiteralDescriptor(call.node.init.type),
              confidence |-> Rat(1, 1)]

\* A template string embedding the identifier x, inferred while the scope binds x.
LiteralsArePrimitiveWitness ==
    /\ Inferred("inferVariableType")
    /\ call.node.init.type = "TemplateLiteral"
    /\ Len(call.node.init.expressions) > 0
    /\ "x" \in DOMAIN context.scope
    /\ result.value = "string"

\* The left-to-right fold of the first n of types under mergeTypes.
RECURSIVE FoldLeft(_, _)
FoldLeft(types, n) ==
    IF n = 1 THEN types[1] ELSE mergeTypes(FoldLeft(types, n - 1), types[n])

\* The array-literal rule, for a literal with the given elements whose
\* inferable elements have the given types.
ArrayRule(elements, types) ==
    IF Len(elements) = 0
    THEN result = [kind |-> "array", value |-> "unknown[]", confidence |-> Rat(1, 2)]
    ELSE IF Len(types) = 0
    THEN result = [kind |-> "array", value |-> "unknown[]", confidence |-> Rat(3, 10)]
    ELSE /\ result.kind = "array"
         /\ result.value = FoldLeft(types, Len(types)).value \o "[]"
         /\ IF \A i, j \in 1..Len(types) : types[i].value = types[j].value
            THEN result.confidence = Rat(1, 1)
            ELSE /\ result.confidence =
                        Mul(FoldLeft(types, Len(types)).confidence, Rat(9, 10))
                 /\ Gt(Rat(1, 1), result.confidence)

\* The types of the elements of an array literal that are neither a spread nor
\* a hole, in order.
ElementTypes(elements, ctx) ==
    LET Inferable(element) == element # Null /\ element.type # "SpreadElement"
        inferable == SelectSeq(elements, Inferable)
    IN  [i \in 1..Len(inferable) |-> inferExpressionType(inferable[i], ctx)]

\* C10: an empty array literal is 'unknown[]' at 0.5; a literal without an
\* inferable element is 'unknown[]' at 0.3; any other is the array of the
\* left-to-right fold of its elements' types, at confidence 1 when all element
\* descriptors are the same text and at 0.9 times the folded confidence, below
\* 1, when they are not.
ArrayLiteralRule ==
    (Inferred("inferVariableType") /\ call.node.init.type = "ArrayExpression")
    => ArrayRule(call.node.init.elements,
                 ElementTypes(call.node.init.elements, context))

\* [x, 42] inferred while x is bound to a union: a fold over three members.
ArrayLiteralRuleWitness ==
    /\ Inferred("inferVariableType")
    /\ call.node.init = arrayExpression(<<idX, numericLiteral(42)>>)
    /\ "x" \in DOMAIN context.scope
    /\ context.scope["x"].kind = "union"
    /\ result = [kind |-> "array", value |-> "string | number[]",
              confidence |-> Rat(27, 40)]

\* The declarator just inferred is initialised with an addition.
AdditionInferred ==
    /\ Inferred("inferVariableType")
    /\ call.node.init.type = "BinaryExpression"
    /\ call.node.init.operator = "+"

IsPrimitive(type, descriptor) == type.kind = "primitive" /\ type.value = descriptor

\* The addition rule for operands of certain type.
AdditionRule(leftType, rightType) ==
    IF IsPrimitive(leftType, "string") \/ IsPrimitive(rightType, "string")
    THEN result = [kind |-> "primitive", value |-> "string", confidence |-> Rat(19, 20)]
    ELSE (IsPrimitive(leftType, "number") /\ IsPrimitive(rightType, "number"))
         => result = [kind |-> "primitive", value |-> "number", confidence |-> Rat(1, 1)]

\* C11: an addition with an operand that is the string primitive is the string
\* primitive at 0.95, whatever the other operand; otherwise an addition of two
\* number primitives is the number primitive at 1.0.
AdditionOfCertainOperands ==
    AdditionInferred
    => AdditionRule(inferExpressionType(call.node.init.left, context),
                    inferExpressionType(call.node.init.right, context))

\* 42 + "hello": one operand a number, the other a string.
AdditionOfCertainOperandsWitness ==
    /\ AdditionInferred
    /\ call.node.init.left = numericLiteral(42)
    /\ call.node.init.right = stringLiteral("hello")
    /\ result = [kind |-> "primitive", value |-> "string", confidence |-> Rat(19, 20)]

\* The addition rule for operands of uncertain type, as the specification has it.
UncertainAdditionRule(leftType, rightType) ==
    (/\ ~IsPrimitive(leftType, "string")
     /\ ~IsPrimitive(rightType, "string")
     /\ ~(IsPrimitive(leftType, "number") /\ IsPrimitive(rightType, "number")))
    => result = [kind |-> "union", value |-> "string | number", confidence |-> Rat(3, 5)]

\* C12: an addition where neither operand is the string primitive and the
\* operands are not both the number primitive is the union 'string | number'
\* at 0.6.
AdditionOfUncertainOperandsIsUnion ==
    AdditionInferred
    => UncertainAdditionRule(inferExpressionType(call.node.init.left, context),
                             inferExpressionType(call.node.init.right, context))

\* The declarator just inferred is initialised with a dot-notation call of one
\* of the methods named.
MethodCallInferred(methodNames) ==
    /\ Inferred("inferVariableType")
    /\ call.node.init.type = "CallExpression"
    /\ call.node.init.callee.type = "MemberExpression"
    /\ ~call.node.init.callee.computed
    /\ call.node.init.callee.property.type = "Identifier"
    /\ call.node.init.callee.property.name \in methodNames

\* The result is an array of the element type of the receiver, at 0.9.
SameArray(receiverType) ==
    receiverType.kind = "array"
    => result = [kind |-> "array", value |-> receiverType.value, confidence |-> Rat(9, 10)]

\* C13: map, filter, slice and concat called on a receiver of array kind return
\* an array type at 0.9 with the descriptor of the receiver.
ArrayMethodsKeepElementType ==
    MethodCallInferred({"map", "filter", "slice", "concat"})
    => SameArray(inferExpressionType(call.node.init.callee.object, context))

(***************************************************************************)
(* Properties of object-shape inference.                                   *)
(***************************************************************************)
\* The opaque object type.
OpaqueObject ==
    [kind |-> "object", value |-> "object", confidence |-> Rat(1, 2),
     needsInterface |-> FALSE, interfaceName |-> Undefined]

\* C14: an object literal with a spread property at any position is inferred as
\* the opaque 'object' at 0.5, without interface, whatever properties come
\* before or after the spread.
SpreadMakesObjectOpaque ==
    (/\ Inferred("inferObjectShape")
     /\ \E i \in 1..Len(call.node.properties) :
            call.node.properties[i].type = "SpreadElement")
    => result = OpaqueObject

\* { a: 42, ...x }: the spread comes after a property already gathered.
SpreadMakesObjectOpaqueWitness ==
    /\ Inferred("inferObjectShape")
    /\ call.node.properties =
           <<objectProperty(identifier("a"), numericLiteral(42), FALSE), spreadElement(idX)>>
    /\ result = OpaqueObject

\* The property prop has a computed key, or a key that is neither an
\* identifier nor a string literal nor a numeric literal.
HasUnnameableKey(prop) ==
    /\ prop.type \in {"ObjectProperty", "ObjectMethod"}
    /\ \/ prop.computed
       \/ prop.key.type \notin {"Identifier", "StringLiteral", "NumericLiteral"}

\* C15: an object literal with a property whose key is computed, whatever
\* stands in the brackets, or is otherwise no identifier, string or numeric
\* literal, is inferred as the opaque 'object' at 0.5.
ComputedKeyMakesObjectOpaque ==
    (/\ Inferred("inferObjectShape")
     /\ \E i \in 1..Len(call.node.properties) :
            HasUnnameableKey(call.node.properties[i]))
    => result = OpaqueObject

\* The literal just inferred has properties, none spread, each with a name.
ShapeInferred ==
    /\ Inferred("inferObjectShape")
    /\ call.node.properties # <<>>
    /\ \A i \in 1..Len(call.node.properties) :
           /\ call.node.properties[i].type \in {"ObjectProperty", "ObjectMethod"}
           /\ PropertyName(call.node.properties[i]) # Undefined

\* The literal just inferred has more than 3 properties, or a property whose
\* type is of object or function kind.
IsComplex ==
    \/ Len(call.node.properties) > 3
    \/ \E i \in 1..Len(call.node.properties) :
           ObjectPropertyType(call.node.properties[i], context).kind
               \in {"object", "function"}

\* C16: a non-empty object literal whose inference does not abort needs an
\* interface, and then has an interface name, exactly when it has more than 3
\* properties or a property of object or function kind; otherwise it needs none
\* and has no interface name.
InterfacePromotionByShape ==
    ShapeInferred =>
        /\ result.kind = "object"
        /\ result.needsInterface <=> IsComplex
        /\ (result.interfaceName # Undefined) <=> IsComplex

\* A literal of four properties, none of object or function kind, is promoted.
InterfacePromotionByShapeWitness ==
    /\ ShapeInferred
    /\ Len(call.node.properties) = 4
    /\ result.needsInterface
    /\ result.interfaceName # Undefined

\* A literal of three such properties is not.
ThreePropertiesStayInline ==
    /\ ShapeInferred
    /\ Len(call.node.properties) = 3
    /\ ~result.needsInterface
    /\ result.interfaceName = Undefined

\* An object literal was just inferred and promoted to an interface.
Promoted ==
    /\ Inferred("inferObjectShape")
    /\ result.kind = "object"
    /\ result.needsInterface

InterfaceNumbered(N) == "Interface" \o NumberToString(N)

\* C17: the name of a promoted object is 'Interface' + N for the least N, from
\* the size of context.interfaces plus one upward, whose name is not a key of
\* context.interfaces; the name is never a key of context.interfaces.
InterfaceNameIsLeastUnused ==
    Promoted =>
        LET size == Cardinality(DOMAIN context.interfaces)
        IN  /\ \E N \in (size + 1)..(2 * size + 1) :
                   /\ result.interfaceName = Some(InterfaceNumbered(N))
                   /\ \A M \in (size + 1)..(N - 1) :
                          InterfaceNumbered(M) \in DOMAIN context.interfaces
            /\ \A name \in result.interfaceName : name \notin DOMAIN context.interfaces

\* With Interface2 the only key, the first candidate is taken and the scan
\* moves on to Interface3.
InterfaceNameIsLeastUnusedWitness ==
    /\ Promoted
    /\ DOMAIN context.interfaces = {"Interface2"}
    /\ result.interfaceName = Some("Interface3")

(***************************************************************************)
(* Properties of return-type inference.                                    *)
(***************************************************************************)
\* The return type of a function with a block body was just inferred.
BlockReturnInferred ==
    /\ Inferred("inferFunctionReturnType")
    /\ call.node.body.type = "BlockStatement"

\* The least of the confidences of types.
LeastConfidence(types) ==
    CHOOSE c \in {types[i].confidence : i \in 1..Len(types)} :
        \A i \in 1..Len(types) : Geq(types[i].confidence, c)

\* The return-type rule, for returns contributing the given types.
ReturnRule(types) ==
    IF \A i \in 1..Len(types) : types[i].value = "void"
    THEN result = [kind |-> "primitive", value |-> "void", confidence |-> Rat(1, 1)]
    ELSE result =
            [FoldLeft(types, Len(types)) EXCEPT !.confidence =
                IF \A i, j \in 1..Len(types) : types[i].value = types[j].value
                THEN LeastConfidence(types)
                ELSE Mul(FoldLeft(types, Len(types)).confidence, Rat(17, 20))]

\* C18: a function with a block body returns 'void' at 1.0 when it has no
\* return or only returns contributing void; otherwise the left-to-right merge
\* of the contributed types, with the least contributed confidence when all
\* descriptors are the same text and 0.85 times the merged confidence otherwise.
BlockReturnTypeRule ==
    BlockReturnInferred => ReturnRule(ReturnTypes(call.node, context))

\* function () { return "hello"; while (p()) return x } with x a string at 0.8:
\* one descriptor, two confidences, the lower one kept.
BlockReturnTypeRuleWitness ==
    /\ BlockReturnInferred
    /\ "x" \in DOMAIN context.scope
    /\ context.scope["x"] = [kind |-> "primitive", value |-> "string", confidence |-> Rat(4, 5)]
    /\ call.node.body.body =
           <<returnStatement(stringLiteral("hello")),
             [type |-> "WhileStatement", test |-> callExpression(idP, <<>>),
              body |-> returnStatement(idX)]>>
    /\ result = [kind |-> "primitive", value |-> "string", confidence |-> Rat(4, 5)]

\* The return type of a function with a block body was just inferred, and
\* each of its returns, at least one, contributes the same primitive descriptor.
SamePrimitiveReturned(types) ==
    /\ BlockReturnInferred
    /\ types # <<>>
    /\ \A i \in 1..Len(types) :
           types[i].kind = "primitive" /\ types[i].value = types[1].value

SamePrimitiveAt(types, confidence) ==
    result = [kind |-> "primitive", value |-> types[1].value, confidence |-> confidence]

SamePrimitiveLeast(types) ==
    SamePrimitiveReturned(types) => SamePrimitiveAt(types, LeastConfidence(types))

SamePrimitiveCertain(types) ==
    SamePrimitiveReturned(types) => SamePrimitiveAt(types, Rat(1, 1))

RECURSIVE CaseStatements(_, _)
CaseStatements(cases, i) ==
    IF i > Len(cases) THEN <<>> ELSE cases[i].consequent \o CaseStatements(cases, i + 1)

\* The statements directly within a statement, in source order; a statement
\* of any other kind, a function definition among them, has none.
StatementsWithin(node) ==
    CASE node.type = "BlockStatement" -> node.body
      [] node.type = "IfStatement" ->
             <<node.consequent>> \o (IF node.alternate = Null THEN <<>> ELSE <<node.alternate>>)
      [] node.type \in {"WhileStatement", "DoWhileStatement", "ForStatement",
                        "ForInStatement", "ForOfStatement", "LabeledStatement"} ->
             <<node.body>>
      [] node.type = "SwitchStatement" -> CaseStatements(node.cases, 1)
      [] node.type = "TryStatement" ->
             <<node.block>>
             \o (IF node.handler = Null THEN <<>> ELSE <<node.handler.body>>)
             \o (IF node.finalizer = Null THEN <<>> ELSE <<node.finalizer>>)
      [] OTHER -> <<>>

\* The return statements reachable from node through such statements.
RECURSIVE ReturnsIn(_)
RECURSIVE ReturnsInEach(_, _)
ReturnsInEach(statements, i) ==
    IF i > Len(statements) THEN <<>>
    ELSE ReturnsIn(statements[i]) \o ReturnsInEach(statements, i + 1)

ReturnsIn(node) ==
    IF node.type = "ReturnStatement" THEN <<node>>
    ELSE ReturnsInEach(StatementsWithin(node), 1)

\* What the given return statements contribute.
ContributedTypes(returns, ctx) ==
    [i \in 1..Len(returns) |->
        IF returns[i].argument = Null THEN createPrimitiveType("void", Rat(1, 1))
        ELSE inferExpressionType(returns[i].argument, ctx)]

\* C20: the returns that contribute to the return type of a function are, in
\* source order, those reachable through blocks, if/else, while, do-while, for,
\* for-in, for-of, switch cases, try/catch/finally and labeled statements; the
\* returns of a function definition nested in the body contribute nothing.
ReturnsRespectFunctionBoundaries ==
    BlockReturnInferred =>
        result = MergeReturnTypes(ContributedTypes(ReturnsIn(call.node.body), context))

\* The returns of the two loops contribute, the return of the nested g does not.
ReturnsRespectFunctionBoundariesWitness ==
    /\ BlockReturnInferred
    /\ call.node = NestedFunction
    /\ result.value = "number | string"

(***************************************************************************)
(* Properties of parameter inference.                                      *)
(***************************************************************************)
\* The nodes directly within a node, in source order: statements and
\* expressions alike.  A function definition is not looked into, and a
\* property name after a dot is no expression.
OptionalPart(node) == IF node = Null THEN <<>> ELSE <<node>>

RECURSIVE CaseParts(_, _)
CaseParts(cases, i) ==
    IF i > Len(cases) THEN <<>>
    ELSE OptionalPart(cases[i].test) \o cases[i].consequent \o CaseParts(cases, i + 1)

RECURSIVE DeclaratorParts(_, _)
DeclaratorParts(declarations, i) ==
    IF i > Len(declarations) THEN <<>>
    ELSE OptionalPart(declarations[i].init) \o DeclaratorParts(declarations, i + 1)

PartsOf(node) ==
    CASE node.type = "BlockStatement" -> node.body
      [] node.type = "ExpressionStatement" -> <<node.expression>>
      [] node.type = "ReturnStatement" -> OptionalPart(node.argument)
      [] node.type = "IfStatement" ->
             <<node.test, node.consequent>> \o OptionalPart(node.alternate)
      [] node.type = "WhileStatement" -> <<node.test, node.body>>
      [] node.type = "DoWhileStatement" -> <<node.body, node.test>>
      [] node.type = "ForStatement" ->
             OptionalPart(node.init) \o OptionalPart(node.test)
             \o OptionalPart(node.update) \o <<node.body>>
      [] node.type \in {"ForInStatement", "ForOfStatement"} ->
             <<node.left, node.right, node.body>>
      [] node.type = "SwitchStatement" ->
             <<node.discriminant>> \o CaseParts(node.cases, 1)
      [] node.type = "TryStatement" ->
             <<node.block>>
             \o (IF node.handler = Null THEN <<>> ELSE <<node.handler.body>>)
             \o OptionalPart(node.finalizer)
      [] node.type = "LabeledStatement" -> <<node.body>>
      [] node.type = "VariableDeclaration" -> DeclaratorParts(node.declarations, 1)
      [] node.type \in {"BinaryExpression", "LogicalExpression"} ->
             <<node.left, node.right>>
      [] node.type = "UnaryExpression" -> <<node.argument>>
      [] node.type = "ConditionalExpression" ->
             <<node.test, node.consequent, node.alternate>>
      [] node.type = "MemberExpression" ->
             <<node.object>> \o (IF node.computed THEN <<node.property>> ELSE <<>>)
      [] node.type = "CallExpression" -> <<node.callee>> \o node.arguments
      [] node.type = "ArrayExpression" -> SelectSeq(node.elements, isExpression)
      [] OTHER -> <<>>

\* The methods only arrays have and the methods only strings have.
ArrayOnlyMethods ==
    {"map", "filter", "reduce", "forEach", "find", "some", "every", "push", "pop", "shift",
     "unshift", "slice", "splice", "join"}

StringOnlyMethods ==
    {"toLowerCase", "toUpperCase", "trim", "split", "substring", "substr", "charAt",
     "charCodeAt", "startsWith", "endsWith", "replace", "replaceAll", "match", "search",
     "padStart", "padEnd", "repeat", "concat"}

\* The evidence table: what the occurrences of paramName as an operand, a
\* receiver or a callee of node say about it, one entry for each.
EvidenceAt(node, paramName) ==
    LET Is(operand) == operand.type = "Identifier" /\ operand.name = paramName
        Number == [kind |-> "primitive", value |-> "number", confidence |-> Rat(4, 5)]
    IN  CASE node.type = "BinaryExpression" /\ node.operator \in {"-", "*", "/", "%", "**"} ->
                 (IF Is(node.left) THEN <<Number>> ELSE <<>>)
                 \o (IF Is(node.right) THEN <<Number>> ELSE <<>>)
          [] node.type = "UnaryExpression" /\ Is(node.argument)
                 /\ node.operator \in {"+", "-", "~"} -> <<Number>>
          [] node.type = "UnaryExpression" /\ Is(node.argument) /\ node.operator = "!" ->
                 <<[kind |-> "primitive", value |-> "boolean", confidence |-> Rat(7, 10)]>>
          [] node.type = "MemberExpression" /\ Is(node.object) /\ ~node.computed
                 /\ node.property.type = "Identifier"
                 /\ node.property.name \in ArrayOnlyMethods ->
                 <<[kind |-> "array", value |-> "unknown[]", confidence |-> Rat(7, 10)]>>
          [] node.type = "MemberExpression" /\ Is(node.object) /\ ~node.computed
                 /\ node.property.type = "Identifier"
                 /\ node.property.name \in StringOnlyMethods ->
                 <<[kind |-> "primitive", value |-> "string", confidence |-> Rat(7, 10)]>>
          [] node.type = "CallExpression" /\ Is(node.callee) ->
                 <<[kind |-> "primitive", value |-> "Function", confidence |-> Rat(4, 5)]>>
          [] OTHER -> <<>>

\* The nodes directly within a node that the traversal of a function body goes
\* on to visit.
TraversedPartsOf(node) ==
    IF node.type \in {"BlockStatement", "ExpressionStatement", "ReturnStatement",
                      "IfStatement", "VariableDeclaration", "BinaryExpression",
                      "LogicalExpression", "UnaryExpression", "MemberExpression",
                      "CallExpression", "ArrayExpression"}
    THEN PartsOf(node)
    ELSE <<>>

\* One entry of evidence about paramName for each of its occurrences in a
\* recognized context in the traversed part of node, in the order of discovery.
RECURSIVE EvidenceOnce(_, _)
RECURSIVE EvidenceOnceEach(_, _, _)
EvidenceOnceEach(nodes, i, paramName) ==
    IF i > Len(nodes) THEN <<>>
    ELSE EvidenceOnce(nodes[i], paramName) \o EvidenceOnceEach(nodes, i + 1, paramName)

EvidenceOnce(node, paramName) ==
    EvidenceAt(node, paramName)
    \o EvidenceOnceEach(TraversedPartsOf(node), 1, paramName)

\* The types of the parameters of a function were just inferred.
ParametersInferred == Inferred("inferParameterTypes")

\* The usage rule: one kind of evidence gives that type, none gives unknown
\* at 0.3.
UsageRule(evidence, type) ==
    IF evidence = <<>>
    THEN type = [kind |-> "unknown", value |-> "unknown", confidence |-> Rat(3, 10)]
    ELSE (\A j \in 1..Len(evidence) : evidence[j] = evidence[1]) => type = evidence[1]

\* C21: a plain identifier parameter whose occurrences in recognized contexts
\* all carry the same evidence is inferred as that evidence type; with no such
\* occurrence, the parameter unused or used only through length, includes,
\* indexOf or lastIndexOf, it is unknown at 0.3.
UsageEvidenceTable ==
    ParametersInferred =>
        \A i \in 1..Len(call.node.params) :
            call.node.params[i].type = "Identifier" =>
                UsageRule(EvidenceOnce(call.node.body, call.node.params[i].name), result[i])

\* function (p) { p.map(x) }: p is the receiver of a method only arrays have.
UsageEvidenceTableWitness ==
    /\ ParametersInferred
    /\ call.node.params = <<idP>>
    /\ call.node.body = blockStatement(<<expressionStatement(
           callExpression(memberExpression(idP, identifier("map"), FALSE), <<idX>>))>>)
    /\ result = <<[kind |-> "array", value |-> "unknown[]", confidence |-> Rat(7, 10)]>>

\* The rule for one parameter of the function just inferred, by its pattern;
\* bindingType is the type inferred for the binding under a rest parameter.
ParameterRule(param, type, bindingType) ==
    CASE param.type = "AssignmentPattern" -> type = inferExpressionType(param.right, context)
      [] param.type = "ArrayPattern" ->
             type = [kind |-> "array", value |-> "unknown[]", confidence |-> Rat(1, 2)]
      [] param.type = "ObjectPattern" ->
             type.value = "object" /\ type.confidence = Rat(1, 2)
      [] param.type = "RestElement" ->
             type = [kind |-> "array", value |-> bindingType.value \o "[]",
                     confidence |-> Mul(bindingType.confidence, Rat(9, 10))]
      [] OTHER -> TRUE

BindingType(param) ==
    IF param.type = "RestElement"
    THEN inferParameterType(param.argument, call.node, context)
    ELSE createUnknownType(Rat(0, 1))

\* C22: there is one type per declared parameter, in declaration order: a
\* default-valued parameter has the type of its default value whatever the
\* body does with it, an array pattern is 'unknown[]' at 0.5, an object
\* pattern 'object' at 0.5, and a rest parameter the type of its binding with
\* '[]' appended and 0.9 times its confidence.
ParametersByPattern ==
    ParametersInferred =>
        /\ Len(result) = Len(call.node.params)
        /\ \A i \in 1..Len(call.node.params) :
               ParameterRule(call.node.params[i], result[i], BindingType(call.node.params[i]))

\* function (p = "hello", ...[x]) { return p * x }: p is a string although
\* the body multiplies it.
ParametersByPatternWitness ==
    /\ ParametersInferred
    /\ Len(call.node.params) = 2
    /\ call.node.params[1] = assignmentPattern(idP, stringLiteral("hello"))
    /\ call.node.body = blockStatement(<<returnStatement(binaryExpression("*", idP, idX))>>)
    /\ result = <<[kind |-> "primitive", value |-> "string", confidence |-> Rat(1, 1)],
                  [kind |-> "array", value |-> "unknown[][]", confidence |-> Rat(9, 20)]>>

(***************************************************************************)
(* Properties of logical expressions, member access and degradation.       *)
(***************************************************************************)
\* A declarator initialised with a logical expression was just inferred.
LogicalInferred ==
    /\ Inferred("inferVariableType")
    /\ call.node.init.type = "LogicalExpression"

\* The confidence is strictly above one half.
AboveHalf(confidence) == 2 * confidence.n > confidence.d

LogicalRule(operator, leftType, rightType) ==
    CASE operator = "??" ->
             IF AboveHalf(rightType.confidence) THEN result = rightType
             ELSE result = mergeTypes(leftType, rightType)
      [] operator \in {"&&", "||"} -> result = mergeTypes(leftType, rightType)
      [] OTHER -> TRUE

\* C23: '??' gives the type of the right operand unchanged when its confidence
\* is strictly greater than 0.5 and the merge of both operands when it is 0.5
\* or less; '&&' and '||' always give the merge of both operands.
NullishFallbackRule ==
    LogicalInferred =>
        LogicalRule(call.node.init.operator,
                    inferExpressionType(call.node.init.left, context),
                    inferExpressionType(call.node.init.right, context))

\* "hello" ?? x with x in scope at exactly 0.5: the operands are merged.
NullishFallbackRuleWitness ==
    /\ LogicalInferred
    /\ call.node.init = logicalExpression("??", stringLiteral("hello"), idX)
    /\ "x" \in DOMAIN context.scope
    /\ context.scope["x"].confidence = Rat(1, 2)
    /\ result # context.scope["x"]
    /\ result.kind = "union"

\* A declarator initialised with a member access was just inferred.
MemberInferred ==
    /\ Inferred("inferVariableType")
    /\ call.node.init.type = "MemberExpression"

\* The element descriptor of an array descriptor: what stands before its
\* closing '[]'.
ElementDescriptor(descriptor) == SubSeq(descriptor, 1, Len(descriptor) - 2)

MemberRule(node, objectType) ==
    IF /\ objectType.kind = "array"
       /\ ~node.computed
       /\ node.property.type = "NumericLiteral"
    THEN /\ result.value = ElementDescriptor(objectType.value) \o " | undefined"
         /\ result.confidence = Rat(9, 10)
    ELSE result = [kind |-> "unknown", value |-> "unknown", confidence |-> Rat(1, 5)]

\* C24: a non-computed numeric-literal index on an array-kind receiver gives
\* the element type followed by ' | undefined' at 0.9; every other member
\* access gives unknown at 0.2.
MemberAccessRule ==
    MemberInferred =>
        MemberRule(call.node.init, inferExpressionType(call.node.init.object, context))

OneEntryEach(recorded, occurrences, type) ==
    /\ Len(recorded) = Len(occurrences)
    /\ type = MergeUsageTypes(occurrences)

\* C25: the evidence folded for a plain identifier parameter has one entry for
\* each occurrence of the parameter in a recognized context in the traversed
\* body, in the order of discovery, and the inferred type is the fold of these.
OneEvidencePerOccurrence ==
    ParametersInferred =>
        \A i \in 1..Len(call.node.params) :
            call.node.params[i].type = "Identifier" =>
                OneEntryEach(UsageTypes(call.node.params[i].name, call.node),
                             EvidenceOnce(call.node.body, call.node.params[i].name),
                             result[i])

(***************************************************************************)
(* Properties of an inference pass.                                        *)
(***************************************************************************)
\* Two promoted shapes that differ have different interface names.
FreshNames(one, other) ==
    (/\ one.kind = "object" /\ one.needsInterface
     /\ other.kind = "object" /\ other.needsInterface
     /\ one.value # other.value)
    => one.interfaceName # other.interfaceName

\* C26: in a pass over one context, two structurally different object literals
\* that are both promoted, one nested in the other or one inferred after the
\* other, never get the same interface name.
InterfaceNamesFreshPerShape ==
    Inferred("inferObjectShape") =>
        /\ \A i \in 1..Len(call.node.properties) :
               (/\ call.node.properties[i].type = "ObjectProperty"
                /\ call.node.properties[i].value.type = "ObjectExpression")
               => FreshNames(result, ObjectPropertyType(call.node.properties[i], context))
        /\ \A next \in LongObjectExpressions \cup {NestedObjectExpression} :
               FreshNames(result, inferObjectShape(next, context))

\* What the entry point named in a call returns for its node in context ctx.
ResultOf(entry, ctx) ==
    CASE entry.fn = "inferVariableType" -> inferVariableType(entry.node, ctx)
      [] entry.fn = "inferObjectShape" -> inferObjectShape(entry.node, ctx)
      [] entry.fn = "inferFunctionReturnType" -> inferFunctionReturnType(entry.node, ctx)
      [] entry.fn = "inferParameterTypes" -> inferParameterTypes(entry.node, ctx)

\* A step in which an entry point is called and returns, or its result is taken,
\* leaves the context as it was, and what is returned is what the entry point
\* gives for the node and the context left behind.
CallKeepsContext ==
    pc' # pc =>
        /\ context'.scope = context.scope
        /\ context'.interfaces = context.interfaces
        /\ context'.imports = context.imports
        /\ pc' = "returned" => ret' = Some(ResultOf(call', context'))

\* C27: no entry point changes context.scope, context.interfaces or
\* context.imports, so that a call with the same node and the same context
\* returns the same result again.
InferenceLeavesContextUnchanged == [][CallKeepsContext]_vars

\* A name was generated against a context that has an interface and a scope
\* entry, and both are still what they were.
InferenceLeavesContextUnchangedWitness ==
    /\ Promoted
    /\ DOMAIN context.interfaces = {"Interface1"}
    /\ DOMAIN context.scope = {"x"}
    /\ result.interfaceName = Some("Interface2")

\* The confidence lies between 0 and 1.
InRange(confidence) == 0 <= confidence.n /\ confidence.n <= confidence.d

\* Types that inferences return, to merge a result with: those of x in scope,
\* of 42 and of an unbound identifier.
OtherResults ==
    {context.scope[name] : name \in DOMAIN context.scope}
    \cup {createPrimitiveType("number", Rat(1, 1)), createUnknownType(Rat(0, 1))}

\* C28: with every confidence in context.scope between 0 and 1, every type an
\* entry point returns has a confidence between 0 and 1, and so has the merge
\* of such results.
ConfidenceInRange ==
    (\A name \in DOMAIN context.scope : InRange(context.scope[name].confidence))
    => \A type \in Results :
           /\ InRange(type.confidence)
           /\ InRange(mergeTypes(type, type).confidence)
           /\ \A other \in OtherResults :
                  /\ InRange(mergeTypes(type, other).confidence)
                  /\ InRange(mergeTypes(other, type).confidence)

\* Two properties, such as a: 42 and b: x with x in scope at 0.8, whose
\* confidences add up to more than 1 and average to 0.9.
ConfidenceInRangeWitness ==
    /\ Inferred("inferObjectShape")
    /\ Len(call.node.properties) = 2
    /\ context.scope # <<>>
    /\ result.confidence = Rat(9, 10)

(***************************************************************************)
(* Properties of the fold of mergeTypes.                                   *)
(***************************************************************************)
\* The fold over three types has run to its end.
Folded == pc = "returned" /\ call.fn = "fold"

\* Three types, none unknown, none a union, with three different descriptors.
ThreeDifferent(types) ==
    /\ \A i \in 1..3 : types[i].kind \notin {"unknown", "union"}
    /\ \A i, j \in 1..3 : i # j => types[i].value # types[j].value

\* ((c1 + c2) / 2 + c3) / 2
PairwiseAverage(c1, c2, c3) == Div(Add(Div(Add(c1, c2), Rat(2, 1)), c3), Rat(2, 1))

\* C29: the left-to-right fold of mergeTypes over three pairwise different
\* types, none unknown and none a union, is the union of the three descriptors
\* in input order with confidence ((c1 + c2) / 2 + c3) / 2.
ThreeWayMergeIsPairwiseAverage ==
    (Folded /\ ThreeDifferent(call.types)) =>
        /\ result.kind = "union"
        /\ result.value =
               call.types[1].value \o " | " \o call.types[2].value
               \o " | " \o call.types[3].value
        /\ result.confidence =
               PairwiseAverage(call.types[1].confidence, call.types[2].confidence,
                               call.types[3].confidence)

(***************************************************************************)
(* Graceful degradation.                                                   *)
(***************************************************************************)
\* The categories of node that inferExpressionType recognizes.
RecognizedCategories ==
    {"PrivateName", "StringLiteral", "NumericLiteral", "BooleanLiteral", "NullLiteral",
     "TemplateLiteral", "BigIntLiteral", "RegExpLiteral", "ArrayExpression",
     "ObjectExpression", "Identifier", "UnaryExpression", "BinaryExpression",
     "LogicalExpression", "ConditionalExpression", "CallExpression", "MemberExpression"}

IsInferredType(type) ==
    /\ type.kind \in {"primitive", "array", "object", "function", "union", "unknown"}
    /\ type.value \in STRING
    /\ type.confidence.d > 0

UnknownAtZero == [kind |-> "unknown", value |-> "unknown", confidence |-> Rat(0, 1)]

\* C30: every call of an entry point returns, and what it returns are inferred
\* types; a declarator whose initializer is of no recognized category, an
\* arrow function or an assignment for instance, is unknown at 0.0, and so is
\* a declarator without initializer.
GracefulDegradation ==
    /\ pc = "returned" => ret # Undefined
    /\ \A type \in Results : IsInferredType(type)
    /\ Inferred("inferVariableType") =>
           /\ call.node.init = Null => result = UnknownAtZero
           /\ call.node.init.type \notin RecognizedCategories => result = UnknownAtZero

\* const v = () => 42
GracefulDegradationWitness ==
    /\ Inferred("inferVariableType")
    /\ call.node.init.type = "ArrowFunctionExpression"
    /\ result = UnknownAtZero

====
